---- MODULE Spec2Model ----
(***************************************************************************)
(* Human Footprint pipeline (HF_main / HF_tasks / HF_spatial / HF_scores). *)
(*                                                                         *)
(* The specifications of this module:                                      *)
(*   Spec       the driver begin_HF walking pressures x years x datasets   *)
(*              over the files of the working folders, with interruption   *)
(*              and re-invocation;                                         *)
(*   SpecAgg    combineRasters on pixel arrays;                            *)
(*   SpecAdd    addRasters on the pressure maps of a year;                 *)
(*   SpecScore  the pixel scoring functions of class SCORING;              *)
(*   SpecBins   equal-frequency bins of the rasters of one process;        *)
(*   SpecShape  raster shapes in combineRasters and addRasters;            *)
(*   SpecBinsOneYear  the same for a purpose of one year;                  *)
(*   SpecRiver  grow_distance_rivers on a grid of river pixels;            *)
(*   SpecGrow   grow_distance_rivers round by round;                       *)
(*   SpecVariants  the driver with one dated variant of a layer scored by  *)
(*              another method than the first variant;                     *)
(*   SpecDispatch  the dispatch of PREPARING on a scoring-method name.     *)
(***************************************************************************)
EXTENDS Integers, Sequences, FiniteSets, TLC

VARIABLES
    inp,            \* configuration: [tasks, years, remove_aux, settlement_scoring,
                    \* variant_scoring]
                    \* and the environment: source files missing, outputs
                    \* that cannot be written
    run,            \* number of begin_HF invocations so far (names the results folder)
    status,         \* "idle" | "running" | "done" | "failed" | "interrupted"
    pc,             \* position of the running invocation
    pi, yi, di,     \* loop indices: pressure, year, dataset
    cur,            \* [layer, scoring_method] chosen for the current dataset
    list_datasets,  \* begin_HF.list_datasets: year -> sequence of layers
    fs,             \* the working folders: file -> number of times written
    log,            \* stage invocations of the current run, in order
    agg,            \* state of SpecAgg, SpecAdd, SpecShape, SpecRiver and SpecGrow
    sc              \* state of SpecScore, SpecBins, SpecGrow and SpecDispatch

vars == <<inp, run, status, pc, pi, yi, di, cur, list_datasets, fs, log, agg, sc>>
drv  == <<inp, run, status, pc, pi, yi, di, cur, list_datasets, fs, log>>

\* Number of begin_HF invocations explored.
MaxRuns == 2

(***************************************************************************)
(* Settings, purpose configuration and layer catalog.                      *)
(***************************************************************************)
Tasks == {"Preparing", "Scoring", "Combining", "Calculating_maps"}

\* Values of purpose_layers[purpose]['years']: one year, two years (the first
\* as far from one dated variant of a multitemporal layer as from the next),
\* and a list that names a year twice.
YearLists == {<<2018>>, <<2005, 2015>>, <<2012, 2012>>}

clip_by_Polygon == FALSE

\* layers_settings['bui_Pe_poblados_MINAM_11']['scoring'] as the catalog has it,
\* and mistyped.
SettlementScoring == {"settlement_scores", "settlement_score"}

\* layers_settings['bui_ESA_18']['scoring'] as the catalog has it, and set to
\* the method of another raster product.
VariantScoring == {"bui_ESA_scores", "GHS_BUILT_scores"}

\* The purpose with Navigable_Waterways listed before Built_Environments.
Pressures_waterways_first ==
    <<"Navigable_Waterways", "Built_Environments", "Population_Density",
      "Mining_Infrastructure">>

\* purpose_layers[purpose]['pressures'], in dictionary order, cut to four
\* pressures: a multitemporal and a proximity dataset, a pressure with no
\* dataset (as Population_Density in 'Official'), the rivers and a categorical
\* dataset.
Pressures == <<"Built_Environments", "Population_Density", "Navigable_Waterways",
               "Mining_Infrastructure">>

purpose_layers(pressure) ==
    CASE pressure = "Built_Environments"    -> <<"bui_ESA", "bui_Pe_poblados_MINAM_11">>
      [] pressure = "Population_Density"    -> <<>>
      [] pressure = "Navigable_Waterways"   -> <<"Pe_rios_MINAM_15">>
      [] pressure = "Mining_Infrastructure" -> <<"Pe_mineria_MINAM_13">>

SeqRange(s) == {s[i] : i \in 1..Len(s)}

IsMultitemporal(dataset) == dataset \in {"bui_ESA"}

multitemporal_layers(dataset) ==
    CASE dataset = "bui_ESA" ->
           <<"bui_ESA_92", "bui_ESA_00", "bui_ESA_10", "bui_ESA_15",
             "bui_ESA_18", "bui_ESA_19">>

layers_settings(layer) ==
    CASE layer = "bui_ESA_92" -> [scoring |-> "bui_ESA_scores", year |-> 1992, units |-> "*units*"]
      [] layer = "bui_ESA_00" -> [scoring |-> "bui_ESA_scores", year |-> 2000, units |-> "*units*"]
      [] layer = "bui_ESA_10" -> [scoring |-> "bui_ESA_scores", year |-> 2010, units |-> "*units*"]
      [] layer = "bui_ESA_15" -> [scoring |-> "bui_ESA_scores", year |-> 2015, units |-> "*units*"]
      [] layer = "bui_ESA_18" -> [scoring |-> inp.variant_scoring, year |-> 2018, units |-> "*units*"]
      [] layer = "bui_ESA_19" -> [scoring |-> "bui_ESA_scores", year |-> 2019, units |-> "*units*"]
      [] layer = "bui_Pe_poblados_MINAM_11" ->
             [scoring |-> inp.settlement_scoring, year |-> 2010, units |-> "meters"]
      [] layer = "Pe_rios_MINAM_15" ->
             [scoring |-> "river_scores", year |-> 2015, units |-> "meters"]
      [] layer = "Pe_mineria_MINAM_13" ->
             [scoring |-> "mining_MINAM_scores", year |-> 2013, units |-> "categorical"]

Abs(n) == IF n < 0 THEN -n ELSE n

\* layers_settings[layer]['path'] that name no file: none, or the rasters of
\* every dated variant of bui_ESA.
MissingSources == {{}, SeqRange(multitemporal_layers("bui_ESA"))}

(***************************************************************************)
(* Files.  A path is the record of the fields its f-string is built from.  *)
(***************************************************************************)
F(k, l, y, r) == [k |-> k, l |-> l, y |-> y, r |-> r]

exists(fsys, f) == f \in DOMAIN fsys

write(fsys, f) ==
    IF exists(fsys, f) THEN [fsys EXCEPT ![f] = @ + 1] ELSE (f :> 1) @@ fsys

remove(fsys, f) == [g \in DOMAIN fsys \ {f} |-> fsys[g]]

write_if_absent(fsys, f) == IF exists(fsys, f) THEN fsys ELSE write(fsys, f)

base_path          == F("base", "", 0, 0)
base_path_uncomp   == F("base_uncomp", "", 0, 0)
results_folder(r)  == F("results_folder", "", 0, r)
pressure_path(l)   == F("prepared", l, 0, 0)
pressure_uncompressed_path(l) == F("uncompressed", l, 0, 0)
proj_path(l)       == F("original_extent_proj", l, 0, 0)
proj_path_cat(l)   == F("template_original_extent_proj", l, 0, 0)
rasterized_path(l) == F("rasterized", l, 0, 0)
built_0_1_path(l, y)       == F("built_0_1", l, y, 0)
proximity_built_path(l, y) == F("built_proximity", l, y, 0)
close_path(l, y)           == F("close_pixels", l, y, 0)
travel_path(l, y)          == F("travel", l, y, 0)
navigable_path(l, y)       == F("navigable", l, y, 0)
scored_path(l, y)          == F("scored_not_clipped", l, y, 0)
out_path_uncomp(l, y)      == F("scored_uncomp", l, y, 0)
out_path(l, y)             == F("scored", l, y, 0)
added_path_uncomp(p, y, r) == F("p_uncomp", p, y, r)
added_path(p, y, r)        == F("p", p, y, r)
HF_path_uncomp(y, r)       == F("HF_uncomp", "", y, r)
HF_path(y, r)              == F("HF", "", y, r)

(***************************************************************************)
(* begin_HF: the driver.                                                   *)
(***************************************************************************)
tasks      == inp.tasks
years      == inp.years
remove_aux == inp.remove_aux

pressure == Pressures[pi]
dataset  == purpose_layers(pressure)[di]
year     == years[yi]

\* HF_tasks.py 100-105: the variant whose year is closest to the requested year.
RECURSIVE closer_layer(_, _, _, _, _)
closer_layer(datasets, i, y, closer_year, layer) ==
    IF i > Len(datasets) THEN layer
    ELSE LET version_year == layers_settings(datasets[i]).year IN
         IF Abs(version_year - y) <= Abs(closer_year - y)
         THEN closer_layer(datasets, i + 1, y, version_year, datasets[i])
         ELSE closer_layer(datasets, i + 1, y, closer_year, layer)

select_layer(ds, y) ==
    IF IsMultitemporal(ds)
    THEN closer_layer(multitemporal_layers(ds), 1, y, 1000000, "")
    ELSE ds

select_scoring_method(ds) ==
    IF IsMultitemporal(ds)
    THEN layers_settings(multitemporal_layers(ds)[1]).scoring
    ELSE layers_settings(ds).scoring

AfterPreparing == IF "Scoring" \in tasks THEN "SCORING" ELSE "dataset_next"
AfterSelect_as_scoring_first ==
    IF "Scoring" \in tasks THEN "SCORING"
    ELSE IF "Preparing" \in tasks THEN "PREPARING" ELSE "dataset_next"
AfterSelect    == IF "Preparing" \in tasks THEN "PREPARING" ELSE AfterPreparing

Event(op, p, y, d) == [op |-> op, p |-> p, y |-> y, d |-> d]

FileStep(to, newfs) == pc' = to /\ fs' = newfs /\ status' = status
Goto(to)            == FileStep(to, fs)
\* An uncaught exception ends the process.
Raise               == pc' = "stopped" /\ status' = "failed" /\ fs' = fs

NoCur == [layer |-> "", scoring_method |-> ""]

begin_HF ==
    /\ status # "running"
    /\ run < MaxRuns
    /\ run' = run + 1
    /\ status' = "running"
    /\ pc' = "prepare_base_raster"
    /\ pi' = 1 /\ yi' = 1 /\ di' = 1
    /\ cur' = NoCur
    /\ list_datasets' = <<>>
    /\ log' = <<>>
    /\ UNCHANGED <<inp, fs, agg, sc>>

\* The process is killed between two steps.  Only an interruption that a
\* re-invocation can follow is explored.
Interrupt ==
    /\ status = "running"
    /\ run < MaxRuns
    /\ status' = "interrupted"
    /\ pc' = "stopped"
    /\ UNCHANGED <<inp, run, pi, yi, di, cur, list_datasets, fs, log, agg, sc>>

RASTER_opens(fsys, path) == exists(fsys, path)

\* Kinds of file that gdal.Translate fails to write; without gdal.UseExceptions
\* it then returns None and raises nothing.
Unwritable == {{}, {"prepared"}}

compress_as_skip_existing(fsys, uncomp, out) == write_if_absent(fsys, out)
\* HF_spatial.py 173-181: translate, then open and close the uncompressed raster.
compress(fsys, uncomp, out) == IF out.k \in inp.unwritable THEN fsys ELSE write(fsys, out)

prepare_base_raster ==
    /\ status = "running"
    /\ \/ /\ pc = "prepare_base_raster"
          /\ IF exists(fs, base_path)
             THEN Goto("create_processing_folder")
             ELSE FileStep("base_compress", write(fs, base_path_uncomp))
       \/ /\ pc = "base_compress"
          /\ IF RASTER_opens(fs, base_path_uncomp)
             THEN FileStep("base_remove", compress(fs, base_path_uncomp, base_path))
             ELSE Raise
       \/ /\ pc = "base_remove"
          /\ FileStep("create_processing_folder", remove(fs, base_path_uncomp))
    /\ UNCHANGED <<inp, run, pi, yi, di, cur, list_datasets, log, agg, sc>>

create_processing_folder ==
    /\ status = "running"
    /\ pc = "create_processing_folder"
    /\ FileStep(IF tasks # {} /\ Len(Pressures) > 0 THEN "pressure_loop" ELSE "end",
                write(fs, results_folder(run)))
    /\ UNCHANGED <<inp, run, pi, yi, di, cur, list_datasets, log, agg, sc>>

pressure_loop ==
    /\ status = "running"
    /\ pc = "pressure_loop"
    /\ IF pi <= Len(Pressures)
       THEN list_datasets' = <<>> /\ pc' = "year_loop"
       ELSE list_datasets' = list_datasets /\ pc' = "calc_loop"
    /\ yi' = 1
    /\ UNCHANGED <<inp, run, status, pi, di, cur, fs, log, agg, sc>>

year_loop ==
    /\ status = "running"
    /\ pc = "year_loop"
    /\ IF yi <= Len(years)
       THEN yi' = yi /\ pc' = "dataset_loop"
       ELSE yi' = 1 /\ pc' = "combine_loop"
    /\ di' = 1
    /\ UNCHANGED <<inp, run, status, pi, cur, list_datasets, fs, log, agg, sc>>

append_layer(ld, y, layer) ==
    IF y \in DOMAIN ld THEN [ld EXCEPT ![y] = Append(@, layer)]
    ELSE (y :> <<layer>>) @@ ld

dataset_loop ==
    /\ status = "running"
    /\ \/ /\ pc = "dataset_loop"
          /\ IF di <= Len(purpose_layers(pressure))
             THEN /\ cur' = [layer |-> select_layer(dataset, year),
                             scoring_method |-> select_scoring_method(dataset)]
                  /\ list_datasets' = append_layer(list_datasets, year, cur'.layer)
                  /\ pc' = AfterSelect
                  /\ UNCHANGED <<yi, di>>
             ELSE /\ yi' = yi + 1
                  /\ pc' = "year_loop"
                  /\ UNCHANGED <<cur, list_datasets, di>>
       \/ /\ pc = "dataset_next"
          /\ di' = di + 1
          /\ pc' = "dataset_loop"
          /\ UNCHANGED <<cur, list_datasets, yi>>
    /\ UNCHANGED <<inp, run, status, pi, fs, log, agg, sc>>

combine_loop ==
    /\ status = "running"
    /\ pc = "combine_loop"
    /\ IF yi <= Len(years)
       THEN IF "Combining" \in tasks /\ list_datasets # <<>>
            THEN pc' = "combineRasters" /\ UNCHANGED <<pi, yi>>
            ELSE pc' = "combine_loop" /\ yi' = yi + 1 /\ pi' = pi
       ELSE pc' = "pressure_loop" /\ pi' = pi + 1 /\ yi' = yi
    /\ UNCHANGED <<inp, run, status, di, cur, list_datasets, fs, log, agg, sc>>

calc_loop ==
    /\ status = "running"
    /\ pc = "calc_loop"
    /\ IF "Calculating_maps" \in tasks /\ yi <= Len(years)
       THEN pc' = "CALCULATING_MAPS"
       ELSE pc' = "end"
    /\ UNCHANGED <<inp, run, status, pi, yi, di, cur, list_datasets, fs, log, agg, sc>>

end_HF ==
    /\ status = "running"
    /\ pc = "end"
    /\ status' = "done"
    /\ pc' = "stopped"
    /\ UNCHANGED <<inp, run, pi, yi, di, cur, list_datasets, fs, log, agg, sc>>

(***************************************************************************)
(* PREPARING (HF_tasks.py 250-415) and the strategies of HF_spatial.py.    *)
(***************************************************************************)
\* Python's  x in ('river_scores')  : the parentheses hold a string, not a
\* tuple, so the test is "x is a substring of 'river_scores'".
substrings_of_river_scores ==
    {"", "_", "c", "e", "i", "o", "r", "s", "v", "_s", "co", "er", "es",
     "iv", "or", "r_", "re", "ri", "sc", "ve", "_sc", "cor", "er_", "ive",
     "ore", "r_s", "res", "riv", "sco", "ver", "_sco", "core", "er_s",
     "iver", "ores", "r_sc", "rive", "scor", "ver_", "_scor", "cores",
     "er_sc", "iver_", "r_sco", "river", "score", "ver_s", "_score",
     "er_sco", "iver_s", "r_scor", "river_", "scores", "ver_sc", "_scores",
     "er_scor", "iver_sc", "r_score", "river_s", "ver_sco", "er_score",
     "iver_sco", "r_scores", "river_sc", "ver_scor", "er_scores",
     "iver_scor", "river_sco", "ver_score", "iver_score", "river_scor",
     "ver_scores", "iver_scores", "river_score", "river_scores"}

in_river_scores(name) == name \in substrings_of_river_scores

\* The tuples of names that the branches of PREPARING list (300-384).
warp_raster_options ==
    {"pop_scores_INEC", "GHS_BUILT_scores", "ntl_VIIRS_scores",
     "ntl_VIIRS_gas_flares_scores", "ntl_Harmonized_scores",
     "luc_ESA_scores", "bui_ESA_scores",
     "luc_MAAE_RS_scores", "bui_MAAE_RS_scores"}

warp_raster_Fcbk_options == {"pop_scores_Fcbk"}

create_proximity_raster_options ==
    {"settlement_scores", "road_scores_l1", "road_scores_l2",
     "road_scores_l3", "road_scores_l4", "railways_scores",
     "line_infrastructure_scores", "reservoir_scores",
     "pollution_scores", "plantations_scores", "urban_scores",
     "bins_6_.15_scores", "bins_6_.05_scores",
     "bins_8_.05_scores", "bins_8_.5_scores"}

create_categorical_raster_options ==
    {"luc_MAAE_scores", "bui_MAAE_scores", "veg_MINAM_scores",
     "mining_MINAM_scores", "agr_MINAGRI_scores"}

PreparingStrategy(scoring_method) ==
    CASE scoring_method \in warp_raster_options
             -> "warp_raster"
      [] scoring_method \in warp_raster_Fcbk_options
             -> "warp_raster_Fcbk"
      [] scoring_method \in create_proximity_raster_options
             -> "create_proximity_raster"
      [] scoring_method \in create_categorical_raster_options
             -> "create_categorical_raster"
      [] in_river_scores(scoring_method)
             -> "create_proximity_raster_from_pixels"
      [] OTHER -> "compress"

pressure_exists_as_never(fsys, layer) == FALSE
pressure_exists(fsys, layer) == exists(fsys, pressure_path(layer))

uncomp == pressure_uncompressed_path(cur.layer)

PREPARING ==
    /\ status = "running"
    /\ \/ /\ pc = "PREPARING"
          /\ log' = Append(log, Event("PREPARING", pi, yi, di))
          /\ IF pressure_exists(fs, cur.layer)
             THEN Goto(AfterPreparing)
             ELSE Goto(PreparingStrategy(cur.scoring_method))
       \/ /\ pc = "compress"
          /\ log' = log
          /\ IF RASTER_opens(fs, uncomp)
             THEN FileStep(IF remove_aux THEN "remove_uncompressed" ELSE AfterPreparing,
                           compress(fs, uncomp, pressure_path(cur.layer)))
             ELSE Raise
       \/ /\ pc = "remove_uncompressed"
          /\ log' = log
          /\ FileStep(AfterPreparing, remove(fs, uncomp))
    /\ UNCHANGED <<inp, run, pi, yi, di, cur, list_datasets, agg, sc>>

\* HF_spatial.py 371-494.  gdal.Warp of a source that is not there writes
\* nothing and RASTER(in_path) raises.
warp_raster ==
    /\ status = "running"
    /\ pc = "warp_raster"
    /\ IF exists(fs, uncomp) THEN Goto("compress")
       ELSE IF cur.layer \in inp.missing THEN Raise
       ELSE FileStep("compress", write(fs, uncomp))
    /\ UNCHANGED <<inp, run, pi, yi, di, cur, list_datasets, log, agg, sc>>

\* reproject_shapefile, clip_shapefile, rasterize_shapefile and proximity_raster
\* each skip their work when their output exists.
AfterReproject(clip, rasterize) == IF clip_by_Polygon THEN clip ELSE rasterize

create_proximity_raster ==
    /\ status = "running"
    /\ \/ /\ pc = "create_proximity_raster"
          /\ Goto(IF exists(fs, uncomp) THEN "compress" ELSE "prox_reproject")
       \/ /\ pc = "prox_reproject"
          /\ FileStep(AfterReproject("prox_clip", "prox_rasterize"),
                      write_if_absent(fs, proj_path(cur.layer)))
       \/ /\ pc = "prox_clip"
          /\ FileStep("prox_rasterize", write_if_absent(fs, F("clip", cur.layer, 0, 0)))
       \/ /\ pc = "prox_rasterize"
          /\ FileStep("prox_proximity", write_if_absent(fs, rasterized_path(cur.layer)))
       \/ /\ pc = "prox_proximity"
          /\ FileStep("compress", write_if_absent(fs, uncomp))
    /\ UNCHANGED <<inp, run, pi, yi, di, cur, list_datasets, log, agg, sc>>

create_categorical_raster ==
    /\ status = "running"
    /\ \/ /\ pc = "create_categorical_raster"
          /\ Goto(IF exists(fs, uncomp) THEN "compress" ELSE "cat_reproject")
       \/ /\ pc = "cat_reproject"
          /\ FileStep(AfterReproject("cat_clip", "cat_rasterize"),
                      write_if_absent(fs, proj_path_cat(cur.layer)))
       \/ /\ pc = "cat_clip"
          /\ FileStep("cat_rasterize", write_if_absent(fs, F("template_clip", cur.layer, 0, 0)))
       \/ /\ pc = "cat_rasterize"
          /\ FileStep("compress", write_if_absent(fs, uncomp))
    /\ UNCHANGED <<inp, run, pi, yi, di, cur, list_datasets, log, agg, sc>>

built_path(y, r) == added_path("Built_Environments", y, r)

travel_exists(fsys, layer, y) == exists(fsys, travel_path(layer, y))

create_proximity_raster_from_pixels ==
    /\ status = "running"
    /\ \/ /\ pc = "create_proximity_raster_from_pixels"
          /\ Goto(IF exists(fs, uncomp) THEN "compress" ELSE "riv_reproject")
       \/ /\ pc = "riv_reproject"
          /\ FileStep(AfterReproject("riv_clip", "riv_rasterize"),
                      write_if_absent(fs, proj_path(cur.layer)))
       \/ /\ pc = "riv_clip"
          /\ FileStep("riv_rasterize", write_if_absent(fs, F("clip", cur.layer, 0, 0)))
       \/ /\ pc = "riv_rasterize"
          /\ FileStep("riv_built_copy", write_if_absent(fs, rasterized_path(cur.layer)))
       \/ /\ pc = "riv_built_copy"
          /\ FileStep("riv_built_convert", write(fs, built_0_1_path(cur.layer, year)))
       \/ /\ pc = "riv_built_convert"
          /\ IF RASTER_opens(fs, built_path(year, run))
             THEN FileStep("riv_built_proximity", write(fs, built_0_1_path(cur.layer, year)))
             ELSE Raise
       \/ /\ pc = "riv_built_proximity"
          /\ FileStep("riv_close",
                      write_if_absent(fs, proximity_built_path(cur.layer, year)))
       \/ /\ pc = "riv_close"
          /\ FileStep("riv_travel", write_if_absent(fs, close_path(cur.layer, year)))
       \/ /\ pc = "riv_travel"
          /\ Goto(IF travel_exists(fs, cur.layer, year) THEN "compress" ELSE "riv_travel_copy")
       \/ /\ pc = "riv_travel_copy"
          /\ FileStep("riv_travel_change", write(fs, travel_path(cur.layer, year)))
       \/ /\ pc = "riv_travel_change"
          /\ FileStep("riv_travel_grow", write(fs, travel_path(cur.layer, year)))
       \/ /\ pc = "riv_travel_grow"
          /\ FileStep("riv_navigable", write(fs, travel_path(cur.layer, year)))
       \/ /\ pc = "riv_navigable"
          /\ FileStep("riv_proximity", write(fs, navigable_path(cur.layer, year)))
       \/ /\ pc = "riv_proximity"
          /\ FileStep("compress", write_if_absent(fs, uncomp))
    /\ UNCHANGED <<inp, run, pi, yi, di, cur, list_datasets, log, agg, sc>>

(***************************************************************************)
(* SCORING.__init__ (HF_tasks.py 437-650), files only.                     *)
(***************************************************************************)
score_exists(fsys, layer, y) == exists(fsys, out_path(layer, y))

\* HF_tasks.py 482-516: the names for which SCORING binds vecfunc; for any
\* other name it prints a message and the call of vecfunc raises NameError.
ScorerMethods ==
    {"plantations_scores", "GHS_BUILT_scores", "ntl_VIIRS_scores",
     "ntl_Harmonized_scores", "railways_scores", "bins_6_.05_scores",
     "bins_6_.15_scores", "bins_8_.5_scores", "bins_8_.05_scores",
     "line_infrastructure_scores", "ntl_VIIRS_gas_flares_scores", "urban_scores",
     "luc_ESA_scores", "bui_ESA_scores", "agr_MINAGRI_scores",
     "luc_MAAE_RS_scores", "bui_MAAE_RS_scores",
     "bui_MAAE_scores", "luc_MAAE_scores", "veg_MINAM_scores", "mining_MINAM_scores",
     "pop_scores_INEC",
     "road_scores_l1", "road_scores_l2", "road_scores_l3", "road_scores_l4",
     "river_scores", "settlement_scores", "reservoir_scores", "pollution_scores",
     "pop_scores_Fcbk"}

SCORING ==
    /\ status = "running"
    /\ \/ /\ pc = "SCORING"
          /\ log' = Append(log, Event("SCORING", pi, yi, di))
          /\ IF score_exists(fs, cur.layer, year)
             THEN Goto("dataset_next")
             ELSE IF /\ RASTER_opens(fs, pressure_path(cur.layer))
                     /\ layers_settings(cur.layer).scoring \in ScorerMethods
                  THEN Goto("score_copy")
                  ELSE Raise
       \/ /\ pc = "score_copy"
          /\ log' = log
          /\ FileStep("score_clip", write(fs, scored_path(cur.layer, year)))
       \/ /\ pc = "score_clip"
          /\ log' = log
          /\ FileStep("score_compress", write(fs, out_path_uncomp(cur.layer, year)))
       \/ /\ pc = "score_compress"
          /\ log' = log
          /\ FileStep(IF remove_aux THEN "score_remove_scored" ELSE "dataset_next",
                      compress(fs, out_path_uncomp(cur.layer, year), out_path(cur.layer, year)))
       \/ /\ pc = "score_remove_scored"
          /\ log' = log
          /\ FileStep("score_remove_uncomp", remove(fs, scored_path(cur.layer, year)))
       \/ /\ pc = "score_remove_uncomp"
          /\ log' = log
          /\ FileStep("dataset_next", remove(fs, out_path_uncomp(cur.layer, year)))
    /\ UNCHANGED <<inp, run, pi, yi, di, cur, list_datasets, agg, sc>>

(***************************************************************************)
(* combineRasters and addRasters (HF_spatial.py 1273-1416), files only.    *)
(***************************************************************************)
combineRasters ==
    /\ status = "running"
    /\ \/ /\ pc = "combineRasters"
          /\ log' = Append(log, Event("combineRasters", pi, yi, 0))
          /\ yi' = yi
          /\ IF \A layer \in SeqRange(list_datasets[year]) :
                    RASTER_opens(fs, out_path(layer, year))
             THEN FileStep("combine_compress",
                           write(fs, added_path_uncomp(pressure, year, run)))
             ELSE Raise
       \/ /\ pc = "combine_compress"
          /\ log' = log
          /\ IF remove_aux
             THEN yi' = yi
             ELSE yi' = yi + 1
          /\ FileStep(IF remove_aux THEN "combine_remove" ELSE "combine_loop",
                      compress(fs, added_path_uncomp(pressure, year, run),
                               added_path(pressure, year, run)))
       \/ /\ pc = "combine_remove"
          /\ log' = log
          /\ yi' = yi + 1
          /\ FileStep("combine_loop", remove(fs, added_path_uncomp(pressure, year, run)))
    /\ UNCHANGED <<inp, run, pi, di, cur, list_datasets, agg, sc>>

PressuresWithLayers == {i \in 1..Len(Pressures) : purpose_layers(Pressures[i]) # <<>>}

CALCULATING_MAPS ==
    /\ status = "running"
    /\ \/ /\ pc = "CALCULATING_MAPS"
          /\ log' = Append(log, Event("CALCULATING_MAPS", 0, yi, 0))
          /\ yi' = yi
          /\ IF \A i \in PressuresWithLayers :
                    RASTER_opens(fs, added_path(Pressures[i], year, run))
             THEN IF PressuresWithLayers # {}
                  THEN FileStep("add_compress", write(fs, HF_path_uncomp(year, run)))
                  ELSE Goto("add_next")
             ELSE Raise
       \/ /\ pc = "add_compress"
          /\ log' = log
          /\ yi' = yi
          /\ FileStep(IF remove_aux THEN "add_remove" ELSE "add_next",
                      compress(fs, HF_path_uncomp(year, run), HF_path(year, run)))
       \/ /\ pc = "add_remove"
          /\ log' = log
          /\ yi' = yi
          /\ FileStep("add_next", remove(fs, HF_path_uncomp(year, run)))
       \/ /\ pc = "add_next"
          /\ log' = log
          /\ yi' = yi + 1
          /\ Goto("calc_loop")
    /\ UNCHANGED <<inp, run, pi, di, cur, list_datasets, agg, sc>>

(***************************************************************************)
(* The driver's specification.                                             *)
(***************************************************************************)
\* The state before the first run, for a configuration and an environment.
before_first_run(configuration) ==
    /\ inp = configuration
    /\ run = 0
    /\ status = "idle"
    /\ pc = "stopped"
    /\ pi = 1 /\ yi = 1 /\ di = 1
    /\ cur = NoCur
    /\ list_datasets = <<>>
    /\ fs = <<>>
    /\ log = <<>>
    /\ agg = 0
    /\ sc = 0

Init ==
    \E configuration \in
           [tasks : SUBSET Tasks, years : YearLists, remove_aux : BOOLEAN,
            settlement_scoring : SettlementScoring, missing : MissingSources,
            unwritable : Unwritable, variant_scoring : {"bui_ESA_scores"}] :
        before_first_run(configuration)

\* The catalog with one dated variant of bui_ESA scored by another method
\* than the first variant; every source there, every output writable.
InitVariants ==
    \E configuration \in
           [tasks : SUBSET Tasks, years : YearLists, remove_aux : BOOLEAN,
            settlement_scoring : {"settlement_scores"}, missing : {{}},
            unwritable : {{}}, variant_scoring : VariantScoring] :
        before_first_run(configuration)

Next ==
    \/ begin_HF
    \/ Interrupt
    \/ prepare_base_raster
    \/ create_processing_folder
    \/ pressure_loop
    \/ year_loop
    \/ dataset_loop
    \/ PREPARING
    \/ warp_raster
    \/ create_proximity_raster
    \/ create_categorical_raster
    \/ create_proximity_raster_from_pixels
    \/ SCORING
    \/ combine_loop
    \/ combineRasters
    \/ calc_loop
    \/ CALCULATING_MAPS
    \/ end_HF

Spec == Init /\ [][Next]_vars

SpecVariants == InitVariants /\ [][Next]_vars

(***************************************************************************)
(* Properties of the driver, checked under Spec.                           *)
(***************************************************************************)
Last(s) == s[Len(s)]

EventLayer(e) == select_layer(purpose_layers(Pressures[e.p])[e.d], years[e.y])

StrategyLabels ==
    {"warp_raster", "warp_raster_Fcbk", "create_proximity_raster",
     "create_categorical_raster", "create_proximity_raster_from_pixels", "compress"}

\* C1: PREPARING, respectively SCORING, invoked for a layer and year whose
\* compressed prepared raster, respectively compressed scored raster, already
\* exists runs no strategy and no scoring function, writes and deletes no file
\* and leaves every existing file as it is.
C1_ExistingTargetIsNoOp ==
    [][/\ (status = "running" /\ pc = "PREPARING"
              /\ exists(fs, pressure_path(cur.layer)))
           => (fs' = fs /\ pc' \notin StrategyLabels
                  /\ pc' \in {AfterPreparing, "stopped"})
       /\ (status = "running" /\ pc = "SCORING"
              /\ exists(fs, out_path(cur.layer, year)))
           => (fs' = fs /\ pc' \in {"dataset_next", "stopped"})]_vars

\* The second of two equal years: the prepared and the scored raster of the
\* dataset existed when PREPARING and SCORING were invoked for it, and both
\* invocations have returned.
C1_Witness ==
    /\ status = "running" /\ pc = "dataset_next"
    /\ years = <<2012, 2012>> /\ yi = 2 /\ pi = 1 /\ di = 2
    /\ Len(log) >= 2
    /\ log[Len(log) - 1] = Event("PREPARING", 1, 2, 2)
    /\ Last(log) = Event("SCORING", 1, 2, 2)
    /\ fs[pressure_path(cur.layer)] = 1
    /\ fs[out_path(cur.layer, year)] = 1

OtherRuns(fsys, r) == {f \in DOMAIN fsys : f.r # r}

Before(op1, op2, same(_, _)) ==
    \A i, j \in 1..Len(log) :
        (log[i].op = op1 /\ log[j].op = op2 /\ same(log[i], log[j])) => i < j

Preceded(op2, op1, P(_, _)) ==
    \A j \in 1..Len(log) :
        log[j].op = op2 => \E i \in 1..(j - 1) : log[i].op = op1 /\ P(log[i], log[j])

SameDataset(a, b)  == a.p = b.p /\ a.y = b.y /\ a.d = b.d
SamePressure(a, b) == a.p = b.p /\ a.y = b.y
SameYear(a, b)     == a.y = b.y

\* C3: in every run, a dataset's PREPARING comes before its SCORING, every
\* SCORING of a pressure's datasets for a year before that pressure's
\* combineRasters for the year, and every combineRasters for a year before
\* CALCULATING_MAPS of that year; each enabled earlier stage has been invoked
\* for every dataset, respectively pressure, when the later stage is invoked.
C3_DependencyOrder ==
    /\ Before("PREPARING", "SCORING", SameDataset)
    /\ Before("SCORING", "combineRasters", SamePressure)
    /\ Before("combineRasters", "CALCULATING_MAPS", SameYear)
    /\ "Preparing" \in tasks => Preceded("SCORING", "PREPARING", SameDataset)
    /\ "Scoring" \in tasks =>
          \A j \in 1..Len(log) : log[j].op = "combineRasters" =>
              \A d \in 1..Len(purpose_layers(Pressures[log[j].p])) :
                  \E i \in 1..(j - 1) :
                      log[i] = Event("SCORING", log[j].p, log[j].y, d)
    /\ "Combining" \in tasks =>
          \A j \in 1..Len(log) : log[j].op = "CALCULATING_MAPS" =>
              \A p \in PressuresWithLayers :
                  \E i \in 1..(j - 1) :
                      log[i] = Event("combineRasters", p, log[j].y, 0)

\* A run with all four tasks has reached CALCULATING_MAPS of its second year.
C3_Witness ==
    /\ tasks = Tasks
    /\ Len(years) = 2
    /\ log # <<>>
    /\ Last(log) = Event("CALCULATING_MAPS", 0, 2, 0)
    /\ status = "done"

\* C4: with all four tasks enabled, a run that has come to its end, normally
\* or by an exception, after any number of interrupted runs, leaves the
\* prepared raster of every layer it invoked PREPARING for.
C4_RecoveryByReinvocation ==
    (status \in {"done", "failed"} /\ tasks = Tasks) =>
        \A i \in 1..Len(log) :
            log[i].op = "PREPARING" => exists(fs, pressure_path(EventLayer(log[i])))

\* C14: the layer chosen for a multitemporal dataset and a requested year is
\* the dated variant whose year is closest to the requested year and, among
\* the variants equally close, the one that comes first in 'datasets'.
C14_ClosestThenEarliest ==
    (status = "running" /\ pc \in {"PREPARING", "SCORING", "dataset_next"}
        /\ IsMultitemporal(dataset)) =>
        LET datasets == multitemporal_layers(dataset)
            dist(l)  == Abs(layers_settings(l).year - year)
        IN \E i \in 1..Len(datasets) :
               /\ cur.layer = datasets[i]
               /\ \A j \in 1..Len(datasets) : dist(datasets[i]) <= dist(datasets[j])
               /\ \A j \in 1..(i - 1) : dist(datasets[j]) > dist(datasets[i])

\* C15: in a run that started with empty working folders, PREPARING finds the
\* prepared raster of its layer present only if PREPARING was invoked before
\* for that layer and that same year: a layer is not skipped for one year
\* because it was prepared for another.
C15_PreparedPerYear ==
    (status = "running" /\ pc = "PREPARING" /\ run = 1
        /\ pressure_exists(fs, cur.layer)) =>
        \E i \in 1..Len(log) :
            /\ log[i].op = "PREPARING"
            /\ EventLayer(log[i]) = cur.layer
            /\ years[log[i].y] = year

\* A layer of the purpose names a scoring method that PREPARING and SCORING do
\* not list.
UnknownScoringMethod ==
    \E p \in 1..Len(Pressures) : \E d \in 1..Len(purpose_layers(Pressures[p])) :
        LET method == select_scoring_method(purpose_layers(Pressures[p])[d]) IN
        PreparingStrategy(method) = "compress" \/ method \notin ScorerMethods

\* C16: with a scoring method that PREPARING and SCORING do not list, the run
\* ends before PREPARING or SCORING is invoked for any layer.
C16_UnknownMethodStopsAtStartup ==
    UnknownScoringMethod =>
        \A i \in 1..Len(log) : log[i].op \notin {"PREPARING", "SCORING"}

AllDatasets ==
    {<<p, y, d>> \in (1..Len(Pressures)) \X (1..Len(years)) \X (1..2) :
        d <= Len(purpose_layers(Pressures[p]))}

\* C17: a first run with all four tasks and a catalog without mistyped names,
\* in which the source file of a layer is missing, has invoked PREPARING and
\* SCORING for every dataset of every pressure and year when it ends.
C17_SiblingsStillProcessed ==
    (inp.missing # {} /\ inp.settlement_scoring = "settlement_scores"
        /\ tasks = Tasks /\ run = 1 /\ status \in {"done", "failed"}) =>
        \A t \in AllDatasets :
            \E i, j \in 1..Len(log) :
                /\ log[i] = Event("PREPARING", t[1], t[2], t[3])
                /\ log[j] = Event("SCORING", t[1], t[2], t[3])

\* The compressed artifact that compress() makes of an uncompressed raster.
Compressed(f) ==
    CASE f.k = "base_uncomp"   -> base_path
      [] f.k = "uncompressed"  -> pressure_path(f.l)
      [] f.k = "scored_uncomp" -> out_path(f.l, f.y)
      [] f.k = "p_uncomp"      -> added_path(f.l, f.y, f.r)
      [] f.k = "HF_uncomp"     -> HF_path(f.y, f.r)

Uncompressed(fsys) ==
    {f \in DOMAIN fsys :
        f.k \in {"base_uncomp", "uncompressed", "scored_uncomp", "p_uncomp", "HF_uncomp"}}

\* C18: no step removes an uncompressed raster while its compressed copy is
\* absent, also when the compression did not write its output.
C18_RemovedOnlyAfterCompressed ==
    [][\A f \in Uncompressed(fs) : ~exists(fs', f) => exists(fs', Compressed(f))]_vars

\* The name PREPARING dispatches on (its argument scoring_method) and the
\* name SCORING dispatches on (HF_tasks.py 480).
preparing_scoring_method == cur.scoring_method
scoring_scoring_method   == layers_settings(cur.layer).scoring

\* C26: for a multitemporal dataset, PREPARING and SCORING both dispatch on
\* the scoring method of the variant selected for the year.
C26_SelectedVariantsMethod ==
    (pc \in {"PREPARING", "SCORING"} /\ IsMultitemporal(dataset)) =>
        /\ cur.layer = select_layer(dataset, year)
        /\ pc = "PREPARING" =>
               preparing_scoring_method = layers_settings(cur.layer).scoring
        /\ pc = "SCORING" =>
               scoring_scoring_method = layers_settings(select_layer(dataset, year)).scoring

\* create_proximity_raster_from_pixels has read the Built_Environments map of
\* year y and written the navigable pixels it found with it (HF_spatial.py
\* 1135-1149, 1193-1255); the prepared raster is the proximity to those pixels.
built_of_year_used(fsys, layer, y) == exists(fsys, navigable_path(layer, y))

\* SCORING is reading the prepared raster of a river_scores layer for a year.
scoring_navigable ==
    /\ status = "running"
    /\ pc = "score_copy"
    /\ layers_settings(cur.layer).scoring = "river_scores"

\* C28: the prepared raster of the navigable-waterway layer that is scored for
\* a year was computed from the Built_Environments map of that year, in every
\* year of the purpose and in every run.
C28_ScoredFromSameYearsBuilt ==
    scoring_navigable => built_of_year_used(fs, cur.layer, year)

\* PREPARING has found the target of a river_scores layer absent and has
\* entered create_proximity_raster_from_pixels for the year.
navigable_preparation_runs ==
    /\ status = "running"
    /\ pc = "create_proximity_raster_from_pixels"

built_map_written == exists(fs, built_path(year, run))

\* C29 as stated: with any set of tasks that contains Preparing, when the
\* navigable-waterway preparation runs for a year, the Built_Environments map
\* of that year is already in the results folder of the run.
C29_BuiltMapWrittenBefore ==
    (navigable_preparation_runs /\ "Preparing" \in tasks) => built_map_written

\* C29 amended: the same, for the sets of tasks that contain Preparing and
\* Combining.
C29_BuiltMapWrittenWhenCombining ==
    (navigable_preparation_runs /\ {"Preparing", "Combining"} \subseteq tasks)
        => built_map_written

C29_Witness ==
    /\ navigable_preparation_runs
    /\ {"Preparing", "Combining"} \subseteq tasks
    /\ built_map_written
    /\ run = 2

(***************************************************************************)
(* combineRasters and addRasters on pixel arrays (HF_spatial.py 1273-1416).*)
(* A raster band is a sequence of pixel values; a numpy masked array is a  *)
(* record of its data and its mask.                                        *)
(***************************************************************************)
\* Pixels of a band, scored rasters per pressure, pressures of a purpose.
NPixels    == 1
MaxLayers  == 3
NPressures == 3

\* create_base_raster: -a_nodata -9999.0; every raster is a copy of the base raster.
nodata == -9999

\* Scores a scored raster holds.
Scores == {0, 4, 10}

Pixels  == 1..NPixels
Rasters == [Pixels -> Scores \cup {nodata}]

Max2(a, b) == IF a >= b THEN a ELSE b

np_ma_masked_equal(array, value) ==
    [data |-> array, mask |-> [px \in DOMAIN array |-> array[px] = value]]

\* A variant that keeps the first operand's data wherever either operand is masked.
np_maximum_as_first_where_masked(datout, press_array) ==
    [data |-> [px \in DOMAIN datout.data |->
                  IF datout.mask[px] \/ press_array.mask[px]
                  THEN datout.data[px]
                  ELSE Max2(datout.data[px], press_array.data[px])],
     mask |-> [px \in DOMAIN datout.data |-> datout.mask[px] \/ press_array.mask[px]]]

\* np.maximum(datout, press_array, out=datout): the ufunc runs on the data of
\* both operands, masked or not; the mask of the result is the union.
np_maximum(datout, press_array) ==
    [data |-> [px \in DOMAIN datout.data |->
                  Max2(datout.data[px], press_array.data[px])],
     mask |-> [px \in DOMAIN datout.data |-> datout.mask[px] \/ press_array.mask[px]]]

\* datout + press_array: numpy.ma keeps the first operand's data where the
\* result is masked.
np_ma_add(datout, press_array) ==
    [data |-> [px \in DOMAIN datout.data |->
                  IF datout.mask[px] \/ press_array.mask[px]
                  THEN datout.data[px]
                  ELSE datout.data[px] + press_array.data[px]],
     mask |-> [px \in DOMAIN datout.data |-> datout.mask[px] \/ press_array.mask[px]]]

\* A variant that writes the nodata value at masked pixels.
WriteArray_as_filled(array) ==
    [px \in DOMAIN array.data |-> IF array.mask[px] THEN nodata ELSE array.data[px]]

\* band.WriteArray writes the data buffer; the mask is not looked at.
WriteArray(array) == array.data

\* The loop of combineRasters over layers[1..n], n >= 1.
RECURSIVE combineRasters_datout(_, _)
combineRasters_datout(layers, n) ==
    IF n = 1 THEN np_ma_masked_equal(layers[1], nodata)
    ELSE np_maximum(combineRasters_datout(layers, n - 1),
                    np_ma_masked_equal(layers[n], nodata))

combineRasters_file(layers) == WriteArray(combineRasters_datout(layers, Len(layers)))

DrvIdle ==
    /\ inp = [tasks |-> {}, years |-> <<>>, remove_aux |-> TRUE,
              settlement_scoring |-> "settlement_scores", missing |-> {},
              unwritable |-> {}, variant_scoring |-> "bui_ESA_scores"]
    /\ run = 0 /\ status = "idle" /\ pc = "stopped"
    /\ pi = 1 /\ yi = 1 /\ di = 1
    /\ cur = NoCur /\ list_datasets = <<>> /\ fs = <<>> /\ log = <<>>

(***************************************************************************)
(* The dispatch of PREPARING on the scoring-method name, on its own          *)
(* (HF_tasks.py 300-394): a name is handed in, the if/elif chain picks the   *)
(* branch.                                                                    *)
(***************************************************************************)
\* Names that no branch lists and that are no part of 'river_scores'.
OtherNames ==
    {"river_scores_l1", "River_scores", "rivers", "river scores", "scores_river",
     "road_scores", "settlement_score", "none"}

MethodNames ==
    warp_raster_options \cup warp_raster_Fcbk_options
        \cup create_proximity_raster_options \cup create_categorical_raster_options
        \cup substrings_of_river_scores \cup OtherNames

\* The names the branches are written for.
preparing_options ==
    warp_raster_options \cup warp_raster_Fcbk_options
        \cup create_proximity_raster_options \cup create_categorical_raster_options
        \cup {"river_scores"}

InitDispatch ==
    /\ DrvIdle
    /\ agg = 0
    /\ \E scoring_method \in MethodNames :
          sc = [scoring_method |-> scoring_method, strategy |-> "", printed |-> <<>>]

\* The if/elif/else chain: the branch taken, and the print of the else.
PREPARING_dispatch ==
    /\ sc.strategy = ""
    /\ \E strategy \in {PreparingStrategy(sc.scoring_method)} :
          sc' = [sc EXCEPT !.strategy = strategy,
                           !.printed = IF strategy = "compress"
                                       THEN <<"not found in preparing options">>
                                       ELSE <<>>]
    /\ UNCHANGED <<inp, run, status, pc, pi, yi, di, cur, list_datasets, fs, log, agg>>

NextDispatch == PREPARING_dispatch

SpecDispatch == InitDispatch /\ [][NextDispatch]_vars

\* C27: a name selects the navigable-waterway strategy only if it is exactly
\* 'river_scores', and a name outside the enumerated sets (the empty string
\* or a fragment such as 'river' included) selects no strategy.
C27_ClosedEnumeration ==
    sc.strategy # "" =>
        /\ sc.strategy = "create_proximity_raster_from_pixels"
               => sc.scoring_method = "river_scores"
        /\ sc.scoring_method \notin preparing_options
               => sc.strategy = "compress" /\ sc.printed # <<>>

LayerLists == UNION {[1..n -> Rasters] : n \in 1..MaxLayers}

InitAgg ==
    /\ DrvIdle
    /\ sc = 0
    /\ agg \in [layers : LayerLists, written : {FALSE}, file : {<<>>}]

combineRasters_px ==
    /\ ~agg.written
    /\ agg' = [agg EXCEPT !.written = TRUE, !.file = combineRasters_file(agg.layers)]
    /\ UNCHANGED <<inp, run, status, pc, pi, yi, di, cur, list_datasets, fs, log, sc>>

NextAgg == combineRasters_px

SpecAgg == InitAgg /\ [][NextAgg]_vars

RECURSIVE SetMax(_)
SetMax(S) ==
    LET x == CHOOSE y \in S : TRUE IN
    IF S = {x} THEN x ELSE Max2(x, SetMax(S \ {x}))

ValidAt(layers, px) == {layers[i][px] : i \in 1..Len(layers)} \ {nodata}

\* C5: the pressure map written by combineRasters holds, at every pixel, the
\* maximum over the scored rasters that are not nodata at that pixel; it is
\* nodata only where every scored raster is nodata.
C5_MaxOverValid ==
    agg.written =>
        \A px \in Pixels :
            agg.file[px] = IF ValidAt(agg.layers, px) = {} THEN nodata
                           ELSE SetMax(ValidAt(agg.layers, px))

\* A raster that is nodata at a pixel where another has a score has been
\* combined, and the pressure map holds the score there.
C5_Witness ==
    /\ agg.written
    /\ \E px \in Pixels : \E i, j \in 1..Len(agg.layers) :
           /\ agg.layers[i][px] = nodata
           /\ agg.layers[j][px] = 4
           /\ agg.file[px] = 4

Perms(n) == {f \in [1..n -> 1..n] : \A i, j \in 1..n : f[i] = f[j] => i = j}

\* C6: listing the scored rasters in another order, or listing one of them a
\* second time, gives the pressure map that combineRasters has written.
C6_OrderAndDuplicates ==
    agg.written =>
        /\ \A f \in Perms(Len(agg.layers)) :
               combineRasters_file([i \in 1..Len(agg.layers) |-> agg.layers[f[i]]])
                   = agg.file
        /\ \A i \in 1..Len(agg.layers) :
               combineRasters_file(Append(agg.layers, agg.layers[i])) = agg.file

\* Three scored rasters, one of them nodata where the two others hold
\* different scores, have been combined.
C6_Witness ==
    /\ agg.written
    /\ Len(agg.layers) = 3
    /\ \E px \in Pixels :
           /\ agg.layers[1][px] = 4
           /\ agg.layers[2][px] = nodata
           /\ agg.layers[3][px] = 10
           /\ agg.file[px] = 10

(***************************************************************************)
(* addRasters on the pressure maps of one year (HF_spatial.py 1348-1416).  *)
(* Every scored raster is cut by the same polygon (HF_tasks.py 600), so    *)
(* the pressure maps are nodata at the same pixels.                        *)
(***************************************************************************)
\* gdal.Warp with cutlineDSName: pixels outside the polygon become nodata.
clip_raster_by_extent(cutline, raster_to_clip) ==
    [px \in DOMAIN raster_to_clip |-> IF cutline[px] THEN raster_to_clip[px] ELSE nodata]

has_layers_as_always(conf, p) == TRUE
\* if settings.purpose_layers[purpose]['pressures'][pressure]:
has_layers(conf, p) == conf[p] # <<>>

\* The loop of addRasters over the first n pressures of the purpose.
RECURSIVE addRasters_loop(_, _, _)
addRasters_loop(conf, pmaps, n) ==
    IF n = 0 THEN [num |-> 0, datout |-> <<>>, failed |-> FALSE]
    ELSE LET prev == addRasters_loop(conf, pmaps, n - 1) IN
         IF prev.failed \/ ~has_layers(conf, n) THEN prev
         ELSE IF n \notin DOMAIN pmaps THEN [prev EXCEPT !.failed = TRUE]
         ELSE LET press_array == np_ma_masked_equal(pmaps[n], nodata) IN
              [num    |-> prev.num + 1,
               datout |-> IF prev.num # 0 THEN np_ma_add(prev.datout, press_array)
                          ELSE press_array,
               failed |-> FALSE]

addRasters_result(conf, pmaps) ==
    LET r == addRasters_loop(conf, pmaps, Len(conf)) IN
    IF r.failed THEN [status |-> "failed", file |-> <<>>]
    ELSE IF r.num > 0 THEN [status |-> "written", file |-> WriteArray(r.datout)]
    ELSE [status |-> "skipped", file |-> <<>>]

DatasetLists == {<<>>} \cup {<<r>> : r \in [Pixels -> Scores]}

InitAdd ==
    /\ DrvIdle
    /\ sc = 0
    /\ agg \in [cutline  : [Pixels -> BOOLEAN],
                datasets : [1..NPressures -> DatasetLists],
                stage    : {"combine"},
                pmaps    : {<<>>},
                HF       : {[status |-> "none", file |-> <<>>]}]

\* HF_tasks.py 129-134: one pressure map per pressure that has datasets.
combine_pressures ==
    /\ agg.stage = "combine"
    /\ agg' = [agg EXCEPT
                 !.stage = "add",
                 !.pmaps = [p \in {q \in 1..NPressures : agg.datasets[q] # <<>>} |->
                              combineRasters_file(
                                  [i \in 1..Len(agg.datasets[p]) |->
                                      clip_raster_by_extent(agg.cutline,
                                                            agg.datasets[p][i])])]]
    /\ UNCHANGED <<inp, run, status, pc, pi, yi, di, cur, list_datasets, fs, log, sc>>

addRasters_px ==
    /\ agg.stage = "add"
    /\ agg' = [agg EXCEPT !.stage = "done",
                          !.HF = addRasters_result(agg.datasets, agg.pmaps)]
    /\ UNCHANGED <<inp, run, status, pc, pi, yi, di, cur, list_datasets, fs, log, sc>>

NextAdd ==
    \/ combine_pressures
    \/ addRasters_px

SpecAdd == InitAdd /\ [][NextAdd]_vars

RECURSIVE SumOver(_, _, _)
SumOver(pmaps, S, px) ==
    IF S = {} THEN 0
    ELSE LET p == CHOOSE q \in S : TRUE IN pmaps[p][px] + SumOver(pmaps, S \ {p}, px)

WithDatasets == {p \in 1..NPressures : agg.datasets[p] # <<>>}

\* C7: addRasters does not fail over a pressure without datasets, writes a
\* Human Footprint map exactly when some pressure has datasets, and the map
\* holds at every pixel the sum of the pressure maps of the pressures that have
\* datasets (nodata where the pressure maps are nodata).
C7_SumOfPressureMaps ==
    agg.stage = "done" =>
        /\ agg.HF.status # "failed"
        /\ agg.HF.status = "written" <=> WithDatasets # {}
        /\ agg.HF.status = "written" =>
              \A px \in Pixels :
                  agg.HF.file[px] =
                      IF \A p \in WithDatasets : agg.pmaps[p][px] # nodata
                      THEN SumOver(agg.pmaps, WithDatasets, px)
                      ELSE nodata

\* The second pressure has no dataset; the map holds the sum of the first and
\* the third pressure map at a pixel inside the polygon.
C7_Witness ==
    /\ agg.stage = "done"
    /\ WithDatasets = {1, 3}
    /\ agg.HF.status = "written"
    /\ \E px \in Pixels :
           /\ agg.cutline[px]
           /\ agg.pmaps[1][px] = 4
           /\ agg.pmaps[3][px] = 10
           /\ agg.HF.file[px] = 14

(***************************************************************************)
(* The scoring template GHF (HF_scores.py) and the scoring functions of    *)
(* class SCORING (HF_tasks.py 653-722).                                    *)
(***************************************************************************)
\* np.inf, above every pixel value.
inf == 1000000000

\* Floating point scores are held in units of 1/SCALE.
SCALE == 10^4

Bin(lo, hi, score) == [lo |-> lo, hi |-> hi, score |-> score]
Exp(max_score, max_score_exp, min_score_exp, max_dist) ==
    [func |-> "exp", max_score |-> max_score, max_score_exp |-> max_score_exp,
     min_score_exp |-> min_score_exp, max_dist |-> max_dist]
Bins(scores_by_bins) == [func |-> "bins", scores_by_bins |-> scores_by_bins]
\* A category: its score and the tuple of pixel codes or labels it lists.
Cat(score, members) == [score |-> score, kind |-> "tuple", members |-> members]
\* A category whose second element is a parenthesised string, not a tuple.
CatStr(score, text) == [score |-> score, kind |-> "str", members |-> {text}]
Categories(scores_by_categories) ==
    [func |-> "categories", scores_by_categories |-> scores_by_categories]

ExpMethods ==
    {"road_scores_l1", "road_scores_l2", "road_scores_l3", "road_scores_l4",
     "river_scores", "settlement_scores", "reservoir_scores", "pollution_scores",
     "pop_scores_Fcbk_l1", "pop_scores_Fcbk_l2", "pop_scores_Fcbk_l3"}

BinsMethods ==
    {"railways_scores", "urban_scores", "bins_8_.5_scores", "bins_6_.15_scores",
     "bins_6_.05_scores", "bins_8_.05_scores", "line_infrastructure_scores",
     "ntl_VIIRS_gas_flares_scores", "GHS_BUILT_scores", "plantations_scores"}

\* Scored by scores_from_category (pixel codes).
CategoryMethods == {"agr_MINAGRI_scores", "bui_ESA_scores", "luc_ESA_scores",
                    "luc_MAAE_RS_scores", "bui_MAAE_RS_scores"}

\* Rasterized from labels by rasterize_shapefile and scored by scores_remain.
RemainMethods == {"mining_MINAM_scores"}

LogMethods == {"pop_scores_INEC"}

ESA_0   == {0, 200, 201, 202, 210, 220}
ESA_50  == {50, 60, 61, 62, 70, 71, 72, 80, 81, 82, 90, 160, 170, 180}
ESA_100 == {100, 110, 120, 121, 122, 140, 150, 151, 152, 153}

GHF(method) ==
    CASE method = "road_scores_l1"     -> Exp(8, 4, 0, 15000)
      [] method = "road_scores_l2"     -> Exp(6, 3, 0, 7500)
      [] method = "road_scores_l3"     -> Exp(4, 2, 0, 3000)
      [] method = "road_scores_l4"     -> Exp(2, 1, 0, 30)
      [] method = "river_scores"       -> Exp(4, 4, 0, 10000)
      [] method = "settlement_scores"  -> Exp(6, 3, 0, 3000)
      [] method = "reservoir_scores"   -> Exp(4, 1, 0, 500)
      [] method = "pollution_scores"   -> Exp(8, 3, 0, 1000)
      [] method = "pop_scores_Fcbk_l1" -> Exp(10, 5, 0, 15000)
      [] method = "pop_scores_Fcbk_l2" -> Exp(6, 3, 0, 7500)
      [] method = "pop_scores_Fcbk_l3" -> Exp(4, 2, 0, 3000)
      [] method = "railways_scores"    -> Bins(<<Bin(0, 90, 8), Bin(90, inf, 0)>>)
      [] method = "urban_scores"       -> Bins(<<Bin(0, 2, 10), Bin(2, inf, 0)>>)
      [] method = "bins_8_.5_scores"   -> Bins(<<Bin(0, 500, 8), Bin(500, inf, 0)>>)
      [] method = "bins_6_.15_scores"  -> Bins(<<Bin(0, 150, 6), Bin(150, inf, 0)>>)
      [] method = "bins_6_.05_scores"  -> Bins(<<Bin(0, 50, 6), Bin(50, inf, 0)>>)
      [] method = "bins_8_.05_scores"  -> Bins(<<Bin(0, 50, 8), Bin(50, inf, 0)>>)
      [] method = "line_infrastructure_scores"
                                       -> Bins(<<Bin(0, 2, 5), Bin(2, inf, 0)>>)
      [] method = "ntl_VIIRS_gas_flares_scores"
                                       -> Bins(<<Bin(0, 160, 0), Bin(160, inf, 10)>>)
      [] method = "GHS_BUILT_scores"   ->
             Bins(<<Bin(0, 10, 0), Bin(10, 25, 6), Bin(25, 100, 10)>>)
      [] method = "plantations_scores" ->
             Bins(<<Bin(0, 2, 4), Bin(2, 200, 0), Bin(200, inf, 0)>>)
      [] method = "pop_scores_INEC"    ->
             [func |-> "log", max_score |-> 10, mult_factor |-> 33333,
              scaling_factor |-> 1]
      [] method = "agr_MINAGRI_scores" -> Categories(<<Cat(0, {0}), Cat(5, {1})>>)
      [] method = "bui_ESA_scores"     ->
             Categories(<<Cat(0, ESA_0), Cat(0, ESA_50), Cat(0, ESA_100), Cat(0, {130}),
                          Cat(0, {30, 40}), Cat(0, {10, 11, 12, 20}), Cat(10, {190})>>)
      [] method = "luc_ESA_scores"     ->
             Categories(<<Cat(0, ESA_0), Cat(0, ESA_50), Cat(0, ESA_100), Cat(0, {130}),
                          Cat(4, {30, 40}), Cat(4, {10, 11, 12, 20}), Cat(0, {190})>>)
      [] method = "luc_MAAE_RS_scores" ->
             Categories(<<Cat(0, {1}), Cat(0, {2}), Cat(4, {3}), Cat(0, {4}),
                          Cat(0, {5}), Cat(0, {6})>>)
      [] method = "bui_MAAE_RS_scores" ->
             Categories(<<Cat(0, {1}), Cat(0, {2}), Cat(0, {3}), Cat(0, {4}),
                          Cat(10, {5}), Cat(0, {6})>>)
      \* 'Forest' lists 56 labels, five of them here.
      [] method = "mining_MINAM_scores" ->
             Categories(<<Cat(0, {"Bofedal", "Cardonal", "Jalca", "Loma", "Manglar"}),
                          Cat(0, {"Agricultura costera y andina",
                                  "Areas de no bosque amaznico"}),
                          CatStr(0, "Plantacin Forestal"),
                          Cat(0, {"Desierto costero", "Humedal costero"}),
                          Cat(0, {"Banco de arena", "Glaciar", "Estero"}),
                          CatStr(0, "Represa"),
                          CatStr(0, "Area urbana"),
                          CatStr(8, "Centro minero"),
                          CatStr(0, "Infraestructura")>>)

\* a * b / SCALE, rounded down, without leaving 32 bits.
mulfix(a, b) == (a \div SCALE) * b + ((a % SCALE) * b) \div SCALE

\* The series of e^(r/1000) from term k on, for 0 <= r <= 1000.
RECURSIVE exp_series(_, _, _)
exp_series(r, k, term) ==
    IF term = 0 THEN 0
    ELSE term + exp_series(r, k + 1, (term * r) \div (1000 * (k + 1)))

\* e^q * SCALE for a natural q < 10.
RECURSIVE exp_whole(_)
exp_whole(q) ==
    IF q = 0 THEN SCALE ELSE mulfix(exp_whole(q - 1), exp_series(1000, 0, SCALE))

\* e^(m/1000) * SCALE for m >= 0; it overflows to inf as np.exp does.
exp_pos(m) ==
    IF m >= 10000 THEN inf
    ELSE mulfix(exp_whole(m \div 1000), exp_series(m % 1000, 0, SCALE))

\* np.exp(m / 1000) * SCALE.
np_exp(m) ==
    IF m > 0 THEN exp_pos(m)
    ELSE IF -m >= 10000 THEN 0
    ELSE (SCALE * SCALE) \div exp_pos(-m)

times(k, e) == IF e = inf THEN inf ELSE k * e

None == "None"

\* A variant with the sign of the exponent lost.
exp_function_as_growing(t, units, value) ==
    IF value > t.max_dist THEN 0
    ELSE IF value = 0 THEN t.max_score * SCALE
    ELSE CASE units \in {"meters", "hab/pixel"} ->
                  times(t.max_score_exp, np_exp(value)) + t.min_score_exp * SCALE
           [] units = "kilometers" ->
                  times(t.max_score_exp, np_exp(value * 1000)) + t.min_score_exp * SCALE
           [] OTHER -> None

exp_function(t, units, value) ==
    IF value > t.max_dist THEN 0
    ELSE IF value = 0 THEN t.max_score * SCALE
    ELSE CASE units \in {"meters", "hab/pixel"} ->
                  times(t.max_score_exp, np_exp(-value)) + t.min_score_exp * SCALE
           [] units = "kilometers" ->
                  times(t.max_score_exp, np_exp(-(value * 1000))) + t.min_score_exp * SCALE
           [] OTHER -> None

\* np.log10(n) * SCALE for the arguments drawn: 0 and the powers of ten.
np_log10(n) ==
    IF n = 0 THEN -inf
    ELSE SCALE * (CHOOSE k \in 0..9 : 10^k = n)

scores_log10_function(t, value) ==
    LET l == np_log10((value \div t.scaling_factor) + 1)
        return_value == IF l = -inf THEN -inf ELSE (t.mult_factor * l) \div SCALE
    IN IF return_value > t.max_score * SCALE THEN t.max_score * SCALE
       ELSE return_value

RECURSIVE SetMin(_)
SetMin(S) ==
    LET x == CHOOSE y \in S : TRUE IN
    IF S = {x} THEN x
    ELSE LET m == SetMin(S \ {x}) IN IF x <= m THEN x ELSE m

\* np.nan, the quantile of an empty array; it is held below every number.
nan == -(inf + 1)

\* Python's a <= b on floats: False when either side is nan.
Leq(a, b) == a # nan /\ b # nan /\ a <= b

scores_from_bins(scores, value) ==
    IF value = 65535 THEN 0
    ELSE LET M == {i \in 1..Len(scores) : Leq(scores[i].lo, value) /\ Leq(value, scores[i].hi)}
         IN IF M = {} THEN 0 ELSE scores[SetMin(M)].score

scores_remain(nd, value) == IF nd # value THEN value ELSE 0

scores_from_category(scores, nd, value) ==
    IF value = nd THEN 0
    ELSE LET M == {i \in 1..Len(scores) : value \in scores[i].members}
         IN IF M = {} THEN 0 ELSE scores[SetMin(M)].score

\* Labels of the features of a vector layer: listed by the method, a fragment
\* of a listed label, and a label the method does not list.
Labels == {"Centro minero", "Represa", "Bofedal", "Glaciar", "Centro", "Desconocido"}

\* Python's `a in b` for two strings among the labels drawn.
IsSubstring(a, b) == a = b \/ <<a, b>> \in {<<"Centro", "Centro minero">>}

label_in(value_str, cat) ==
    IF cat.kind = "tuple" THEN value_str \in cat.members
    ELSE \E text \in cat.members : IsSubstring(value_str, text)

\* rasterize_shapefile 731-741: the last category that matches gives the value
\* burned; 999 when none matches.
rasterize_shapefile_value(method, value_str) ==
    LET scores == GHF(method).scores_by_categories
        M == {i \in 1..Len(scores) : label_in(value_str, scores[i])}
    IN IF M = {} THEN 999 ELSE scores[SetMax(M)].score

\* SCORING.__init__ 482-516: the function vectorized for the method.
vecfunc(method) ==
    CASE method \in BinsMethods     -> "scores_from_bins"
      [] method \in CategoryMethods -> "scores_from_category"
      [] method \in RemainMethods   -> "scores_remain"
      [] method \in LogMethods      -> "scores_log10_function"
      [] method \in ExpMethods      -> "exp_function"

\* The value saved in the scored raster, in units of 1/SCALE.
scored_value(method, units, value) ==
    LET f == vecfunc(method) IN
    CASE f = "scores_from_bins" ->
             SCALE * scores_from_bins(GHF(method).scores_by_bins, value)
      [] f = "scores_from_category" ->
             SCALE * scores_from_category(GHF(method).scores_by_categories, nodata, value)
      [] f = "scores_remain" -> SCALE * scores_remain(nodata, value)
      [] f = "scores_log10_function" -> scores_log10_function(GHF(method), value)
      [] f = "exp_function" -> exp_function(GHF(method), units, value)

(***************************************************************************)
(* One pixel of one layer through rasterize_shapefile and SCORING.         *)
(***************************************************************************)
\* layers_settings[layer]['units'] of the layers scored by exp_function.
ExpUnits(method) ==
    IF method \in {"pop_scores_Fcbk_l1", "pop_scores_Fcbk_l2", "pop_scores_Fcbk_l3"}
    THEN {"hab/pixel"}
    ELSE {"meters", "kilometers"}

\* Pixel values of a prepared raster, by scoring function.
PreparedValues(method) ==
    CASE method \in ExpMethods      -> (-1)..(GHF(method).max_dist + 1) \cup {nodata}
      [] method \in BinsMethods     -> (-1)..501 \cup {65535, nodata}
      [] method \in CategoryMethods -> 0..221 \cup {nodata}
      [] method \in LogMethods      -> {-1, 0, 9, 99, 999, 9999}
      [] method \in RemainMethods   -> {0, nodata}

Pixel(method, units, label, value, stage) ==
    [method |-> method, units |-> units, label |-> label, value |-> value,
     stage |-> stage, scored |-> 0, printed |-> <<>>]

InitScore ==
    /\ DrvIdle
    /\ agg = 0
    /\ \E method \in ExpMethods \cup BinsMethods \cup CategoryMethods
                       \cup LogMethods \cup RemainMethods :
          \/ \E units \in (IF method \in ExpMethods THEN ExpUnits(method) ELSE {""}) :
             \E value \in PreparedValues(method) :
                 sc = Pixel(method, units, "", value, "prepared")
          \/ /\ method \in RemainMethods
             /\ \E label \in Labels : sc = Pixel(method, "", label, 0, "vector")

\* rasterize_shapefile 737-740: print(f'Problem string {value_str}') when no
\* category lists the label.
rasterize_shapefile_prints(method, value_str) ==
    LET scores == GHF(method).scores_by_categories IN
    IF \A i \in 1..Len(scores) : ~label_in(value_str, scores[i])
    THEN <<"Problem string">> ELSE <<>>

\* rasterize_shapefile burns the value of the feature's label.
rasterize_shapefile_px ==
    /\ sc.stage = "vector"
    /\ sc' = [sc EXCEPT !.stage = "prepared",
                        !.value = rasterize_shapefile_value(sc.method, sc.label),
                        !.printed = @ \o rasterize_shapefile_prints(sc.method, sc.label)]
    /\ UNCHANGED <<inp, run, status, pc, pi, yi, di, cur, list_datasets, fs, log, agg>>

\* scored_array = vecfunc(not_scored_array)
SCORING_px ==
    /\ sc.stage = "prepared"
    /\ sc' = [sc EXCEPT !.stage = "scored",
                        !.scored = scored_value(sc.method, sc.units, sc.value)]
    /\ UNCHANGED <<inp, run, status, pc, pi, yi, di, cur, list_datasets, fs, log, agg>>

NextScore ==
    \/ rasterize_shapefile_px
    \/ SCORING_px

SpecScore == InitScore /\ [][NextScore]_vars

\* C8: a pixel whose value is the boundary shared by two consecutive bins has
\* the score of the bin that has the value as its lower bound.
C8_HalfOpenBins ==
    (sc.stage = "scored" /\ sc.method \in BinsMethods) =>
        LET scores == GHF(sc.method).scores_by_bins IN
        \A i \in 1..(Len(scores) - 1) :
            (scores[i].hi = sc.value /\ scores[i + 1].lo = sc.value)
                => sc.scored = SCALE * scores[i + 1].score

max_score_of(method) ==
    LET t == GHF(method) IN
    CASE t.func \in {"exp", "log"} -> t.max_score
      [] t.func = "bins" ->
             SetMax({t.scores_by_bins[i].score : i \in 1..Len(t.scores_by_bins)})
      [] t.func = "categories" ->
             SetMax({t.scores_by_categories[i].score :
                        i \in 1..Len(t.scores_by_categories)})

\* C9: every value saved in a scored raster lies between 0 and the maximum
\* score of the layer's scoring method.
C9_ScoreInRange ==
    sc.stage = "scored" =>
        (0 <= sc.scored /\ sc.scored <= SCALE * max_score_of(sc.method))

\* A pixel code, respectively a label, that no category of the method lists.
Unmatched(px) ==
    LET scores == GHF(px.method).scores_by_categories IN
    IF px.label # ""
    THEN \A i \in 1..Len(scores) : ~label_in(px.label, scores[i])
    ELSE /\ px.method \in CategoryMethods
         /\ px.value # nodata
         /\ \A i \in 1..Len(scores) : px.value \notin scores[i].members

\* C11: a scored pixel whose category code (raster layers, scores_from_category)
\* or whose feature label (vector layers, rasterize_shapefile then scores_remain)
\* is listed by no category of the scoring method has been reported and has
\* score 0.
C11_UnmatchedReportedAndZero ==
    (sc.stage = "scored" /\ sc.method \in CategoryMethods \cup RemainMethods
        /\ Unmatched(sc))
        => (sc.printed # <<>> /\ sc.scored = 0)

\* C10: exp_function gives max_score at distance 0, 0 beyond max_dist, and
\* between 0 and max_dist a score that is not below the score of the next
\* greater distance.
C10_ExpShape ==
    (sc.stage = "scored" /\ sc.method \in ExpMethods) =>
        LET t == GHF(sc.method) IN
        /\ sc.value = 0 => sc.scored = SCALE * t.max_score
        /\ sc.value > t.max_dist => sc.scored = 0
        /\ (0 <= sc.value /\ sc.value < t.max_dist)
              => sc.scored >= exp_function(t, sc.units, sc.value + 1)
        /\ (0 <= sc.value /\ sc.value <= t.max_dist)
              => (0 <= sc.scored /\ sc.scored <= SCALE * t.max_score)

\* A pixel one metre from a river has been scored, below the score at 0.
C10_Witness ==
    /\ sc.stage = "scored"
    /\ sc.method = "river_scores" /\ sc.units = "meters"
    /\ sc.value = 1
    /\ 0 < sc.scored /\ sc.scored < SCALE * GHF("river_scores").max_score

(***************************************************************************)
(* Equal-frequency scoring (HF_tasks.py 572-579, 724-755): the rasters of  *)
(* one process scored one after the other with an equal_sample_bins        *)
(* method.  Pixel values, thresholds and cut points are held in quarters.  *)
(***************************************************************************)
\* Pixels of a night-time lights raster; rasters scored by one process.
NtlPixels  == 3
MaxRasters == 2

EqualSampleMethods == {"ntl_VIIRS_scores", "ntl_Harmonized_scores"}

\* 'min_threshold': 1.5 and 10.
min_threshold(method) ==
    CASE method = "ntl_VIIRS_scores"      -> 6
      [] method = "ntl_Harmonized_scores" -> 40

\* Radiances 0, 2, 12 and 20, and nodata.
NtlValues == {nodata, 0, 8, 48, 80}

NtlRasters == [1..NtlPixels -> NtlValues]

\* np.delete(ar_f, np.where(...))
np_delete_where(ar_f, Test(_)) == SelectSeq(ar_f, LAMBDA v : ~Test(v))

\* The array in ascending order, as np.quantile partitions it.
RECURSIVE np_sort(_)
np_sort(ar) ==
    IF ar = <<>> THEN <<>>
    ELSE LET m == SetMin(SeqRange(ar))
             i == CHOOSE j \in 1..Len(ar) : ar[j] = m
         IN <<m>> \o np_sort(SubSeq(ar, 1, i - 1) \o SubSeq(ar, i + 1, Len(ar)))

\* A variant with interpolation='lower'.
np_quantile_as_lower(ar_f, i) ==
    IF ar_f = <<>> THEN nan
    ELSE np_sort(ar_f)[(((Len(ar_f) - 1) * i) \div 10) + 1]

\* np.quantile(ar_f, i/10, interpolation='midpoint')
np_quantile(ar_f, i) ==
    IF ar_f = <<>> THEN nan
    ELSE LET a     == np_sort(ar_f)
             h10   == (Len(ar_f) - 1) * i
             below == h10 \div 10
             above == IF h10 % 10 = 0 THEN below ELSE below + 1
         IN (a[below + 1] + a[above + 1]) \div 2

get_bins(array, min_th, nd) ==
    LET ar_1   == np_delete_where(array, LAMBDA v : v < min_th)
        ar_2   == np_delete_where(ar_1, LAMBDA v : v = 0)
        ar_f   == np_delete_where(ar_2, LAMBDA v : v = nd)
        limits == [i \in 0..10 |-> np_quantile(ar_f, i)]
    IN [i \in 1..10 |-> Bin(limits[i - 1], IF i = 10 THEN inf ELSE limits[i], i)]

\* 'bins_ntl' not in globals()
NotInGlobals == <<>>

\* A process that scores `rasters` rasters with an equal_sample_bins method
\* (one for each year of the purpose) has started.
process_started(rasters) ==
    /\ DrvIdle
    /\ agg = 0
    /\ sc = [rasters |-> rasters, n |-> 0, bins_ntl |-> NotInGlobals, method |-> "",
             array |-> <<>>, scores |-> <<>>, scored_array |-> <<>>]

InitBins == process_started(MaxRasters)

\* 'years': [2018]
InitBinsOneYear == process_started(1)

\* SCORING.__init__ for one raster scored with an equal_sample_bins method.
SCORING_equal_sample_bins ==
    /\ sc.n < sc.rasters
    /\ \E method \in EqualSampleMethods : \E not_scored_array \in NtlRasters :
         LET bins == IF sc.bins_ntl = NotInGlobals
                     THEN get_bins(not_scored_array, min_threshold(method), nodata)
                     ELSE sc.bins_ntl
         IN sc' = [rasters |-> sc.rasters, n |-> sc.n + 1, bins_ntl |-> bins,
                   method |-> method,
                   array |-> not_scored_array, scores |-> bins,
                   scored_array |-> [px \in 1..NtlPixels |->
                                        scores_from_bins(bins, not_scored_array[px])]]
    /\ UNCHANGED <<inp, run, status, pc, pi, yi, di, cur, list_datasets, fs, log, agg>>

NextBins == SCORING_equal_sample_bins

SpecBins == InitBins /\ [][NextBins]_vars

SpecBinsOneYear == InitBinsOneYear /\ [][NextBins]_vars

\* Pixels of the raster scored last that get_bins keeps.
Kept == {px \in DOMAIN sc.array :
            /\ sc.array[px] # nodata /\ sc.array[px] # 0
            /\ sc.array[px] >= min_threshold(sc.method)}

\* The value at 0-based rank j among the kept values.
AtRank(j) ==
    CHOOSE v \in {sc.array[px] : px \in Kept} :
        /\ Cardinality({px \in Kept : sc.array[px] < v}) <= j
        /\ j < Cardinality({px \in Kept : sc.array[px] <= v})

\* The p-th percentile of the kept values, midpoint interpolation.
Percentile(p) ==
    LET h100 == (Cardinality(Kept) - 1) * p
        lower == h100 \div 100
        upper == IF h100 % 100 = 0 THEN lower ELSE lower + 1
    IN (AtRank(lower) + AtRank(upper)) \div 2

\* C12: the bins a raster is scored with are the quantile bins of that raster's
\* own filtered values, for every raster scored by the process.
C12_BinsOfOwnRaster ==
    sc.n >= 1 => sc.scores = get_bins(sc.array, min_threshold(sc.method), nodata)

MaxDim == 2

Shapes == (1..MaxDim) \X (1..MaxDim)

ShapeError == <<0, 0>>

\* numpy broadcasting of two 2-d shapes; ShapeError when they do not broadcast.
np_broadcast(a, b) ==
    IF a = ShapeError \/ b = ShapeError THEN ShapeError
    ELSE IF \A k \in 1..2 : a[k] = b[k] \/ a[k] = 1 \/ b[k] = 1
         THEN [k \in 1..2 |-> Max2(a[k], b[k])]
         ELSE ShapeError

\* np.maximum(datout, press_array, out=datout): the operands are broadcast and
\* the result must have the shape of out.
np_maximum_shape(datout, press_array) ==
    IF np_broadcast(datout, press_array) = datout THEN datout ELSE ShapeError

\* band.WriteArray(data) into a band of shape `band`: ValueError when the array
\* is larger than the band.
WriteArray_fits(band, data) == data # ShapeError /\ \A k \in 1..2 : data[k] <= band[k]

\* The shape of datout after the loop over shapes[1..n], n >= 1.
RECURSIVE datout_shape(_, _, _)
datout_shape(op, shapes, n) ==
    IF n = 1 THEN shapes[1]
    ELSE LET prev == datout_shape(op, shapes, n - 1) IN
         IF prev = ShapeError THEN ShapeError
         ELSE IF op = "combineRasters" THEN np_maximum_shape(prev, shapes[n])
         ELSE np_broadcast(prev, shapes[n])

\* The map is created with the shape of the first raster (fn1) and datout is
\* written into it.
map_written(op, shapes) ==
    LET datout == datout_shape(op, shapes, Len(shapes)) IN
    IF WriteArray_fits(shapes[1], datout)
    THEN [status |-> "written", shape |-> shapes[1]]
    ELSE [status |-> "ValueError", shape |-> ShapeError]

InitShape ==
    /\ DrvIdle
    /\ sc = 0
    /\ agg \in [base   : Shapes,
                op     : {"combineRasters", "addRasters"},
                shapes : UNION {[1..n -> Shapes] : n \in 1..MaxLayers},
                out    : {[status |-> "none", shape |-> ShapeError]}]

combineRasters_shape ==
    /\ agg.op = "combineRasters"
    /\ agg.out.status = "none"
    /\ agg' = [agg EXCEPT !.out = map_written("combineRasters", agg.shapes)]
    /\ UNCHANGED <<inp, run, status, pc, pi, yi, di, cur, list_datasets, fs, log, sc>>

addRasters_shape ==
    /\ agg.op = "addRasters"
    /\ agg.out.status = "none"
    /\ agg' = [agg EXCEPT !.out = map_written("addRasters", agg.shapes)]
    /\ UNCHANGED <<inp, run, status, pc, pi, yi, di, cur, list_datasets, fs, log, sc>>

NextShape ==
    \/ combineRasters_shape
    \/ addRasters_shape

SpecShape == InitShape /\ [][NextShape]_vars

\* C19: combineRasters and addRasters write their map only when every raster
\* they read has the rows and columns of the base raster.
C19_MismatchNeverWritten ==
    agg.out.status = "written" =>
        \A i \in 1..Len(agg.shapes) : agg.shapes[i] = agg.base

(***************************************************************************)
(* Navigable rivers: grow_distance_rivers (HF_spatial.py 973-1069) as      *)
(* create_proximity_raster_from_pixels calls it (1193-1255).  Arrays are   *)
(* functions over the cells <<row, column>>, counted from 0.  Distances    *)
(* are held in thousandths; the markers of track_array are plain numbers.  *)
(***************************************************************************)
\* river_raster.YSize and XSize of the rasters with rivers of any form, and
\* the most river pixels of such a raster.
YSize    == 3
XSize    == 3
MaxRiver == 3

\* The pixels of a straight river along the middle row of a raster of three
\* rows.
LinePixels == 12

\* One unit of distance.
U == 10^3

GridCells(ysize, xsize) == (0..(ysize - 1)) \X (0..(xsize - 1))

\* The pixels of the river raster at hand.
Cells == GridCells(agg.YSize, agg.XSize)

\* <<diredist, diagdist>> for cells of 1 x 1, of 300 x 300 (pixel_res) and of
\* 300 x 100 units.
StepCosts == {<<U, 1414>>, <<300 * U, 424264>>, <<200 * U, 316228>>}

\* 'navi_dist': 20000 in the templates; five direct steps and one diagonal
\* step as further settings of it.
NaviDists(cost) == {20000 * U, 5 * cost[1], cost[2]}

\* numpy resolves an index k of an axis of length n: k from -n to -1 counts
\* from the end, anything else outside 0..n-1 raises IndexError.
InBounds(n) ==
    /\ n[1] \in (-agg.YSize)..(agg.YSize - 1)
    /\ n[2] \in (-agg.XSize)..(agg.XSize - 1)
At(n) == <<IF n[1] < 0 THEN n[1] + agg.YSize ELSE n[1],
           IF n[2] < 0 THEN n[2] + agg.XSize ELSE n[2]>>

\* The dictionary neighbs of pixel (i, j), in insertion order.
neighbs(p) ==
    LET i == p[1]
        j == p[2]
    IN << <<<<i + 1, j>>, "direct">>,       <<<<i - 1, j>>, "direct">>,
          <<<<i, j + 1>>, "direct">>,       <<<<i, j - 1>>, "direct">>,
          <<<<i + 1, j + 1>>, "diagonal">>, <<<<i + 1, j - 1>>, "diagonal">>,
          <<<<i - 1, j + 1>>, "diagonal">>, <<<<i - 1, j - 1>>, "diagonal">> >>

\* change_value: 1 becomes -1, anything else 0.
change_value(array) == [c \in Cells |-> IF array[c] = 1 THEN -U ELSE 0]


\* pixels_rivers_func with the maximum distance left out.
pixels_rivers_func_below(travel, maxdist) == IF 0 < travel /\ travel < maxdist THEN 1 ELSE 0


\* pixels_rivers_func without the lower limit.
pixels_rivers_func_unreached(travel, maxdist) == IF travel # 0 /\ travel <= maxdist THEN 1 ELSE 0

\* pixels_rivers_func
pixels_rivers_func(travel, maxdist) == IF 0 < travel /\ travel <= maxdist THEN 1 ELSE 0

\* reviewed_list of one round, flattened in iteration order: the entries
\* <<old_neighb, pixel, kind>> of the pixels of the cluster under the maximum
\* distance.
RECURSIVE reviewed_list(_, _, _, _, _)
reviewed_list(cluster, k, st, river_array, distnavigable) ==
    IF k > Len(cluster) THEN <<>>
    ELSE LET old_neighb == cluster[k]
             cond2 == st.travel[At(old_neighb)] < distnavigable
             found == SelectSeq(neighbs(old_neighb),
                                LAMBDA e : /\ InBounds(e[1])
                                           /\ river_array[At(e[1])] = 1
                                           /\ st.track[At(e[1])] # -2)
         IN (IF cond2
             THEN [x \in 1..Len(found) |-> <<old_neighb, found[x][1], found[x][2]>>]
             ELSE <<>>)
            \o reviewed_list(cluster, k + 1, st, river_array, distnavigable)

\* The second loop of a round applied to entries k.. of reviewed.  Every
\* assignment to travel_array is recorded in st.trace with the values the
\* code read before it.
RECURSIVE assign_distances(_, _, _, _, _, _)
assign_distances(reviewed, k, st, close_array, diredist, diagdist) ==
    IF k > Len(reviewed) THEN st
    ELSE LET neigh    == At(reviewed[k][1])
             pixel    == At(reviewed[k][2])
             dist     == IF reviewed[k][3] = "direct" THEN diredist ELSE diagdist
             original == st.travel[neigh]
             olddist  == st.travel[pixel]
             newdist  == original + dist
             value    == IF close_array[pixel] = -1 THEN U
                         ELSE IF olddist = -U
                              THEN (IF original = U THEN dist ELSE newdist)
                              ELSE IF olddist > newdist THEN newdist ELSE olddist
         IN assign_distances(reviewed, k + 1,
                             [st EXCEPT
                                !.track  = [st.track EXCEPT ![pixel] = -2],
                                !.travel = [st.travel EXCEPT ![pixel] = value],
                                !.trace  = Append(st.trace,
                                    [pixel |-> pixel, neigh |-> neigh, raw |-> reviewed[k][2],
                                     dist |-> dist, original |-> original,
                                     olddist |-> olddist, value |-> value,
                                     seed |-> st.seed, round |-> st.round,
                                     searched |-> st.start[pixel] = -2])],
                             close_array, diredist, diagdist)

\* The pixels of reviewed, each once, in order.
RECURSIVE new_cluster(_, _, _)
new_cluster(reviewed, k, cluster) ==
    IF k > Len(reviewed) THEN cluster
    ELSE new_cluster(reviewed, k + 1,
                     IF \E x \in 1..Len(cluster) : cluster[x] = reviewed[k][2]
                     THEN cluster ELSE Append(cluster, reviewed[k][2]))

\* while cluster: ...
RECURSIVE grow_cluster(_, _, _, _, _, _, _)
grow_cluster(cluster, st, close_array, river_array, distnavigable, diredist, diagdist) ==
    IF cluster = <<>> THEN st
    ELSE LET reviewed == reviewed_list(cluster, 1, st, river_array, distnavigable)
             round    == [st EXCEPT !.round = st.round + 1, !.start = st.track]
         IN grow_cluster(new_cluster(reviewed, 1, <<>>),
                         assign_distances(reviewed, 1, round, close_array, diredist, diagdist),
                         close_array, river_array, distnavigable, diredist, diagdist)

\* The start of a new cluster at pixel c, the n-th of the scan.
start_cluster(st, c, n) ==
    [st EXCEPT
       !.track  = [st.track EXCEPT ![c] = -2],
       !.travel = [st.travel EXCEPT ![c] = U],
       !.seed   = n,
       !.round  = 0,
       !.start  = st.track,
       !.trace  = Append(st.trace,
           [pixel |-> c, neigh |-> c, raw |-> c, dist |-> 0, original |-> 0,
            olddist |-> st.travel[c], value |-> U, seed |-> n, round |-> 0,
            searched |-> st.track[c] = -2])]


\* The start of a cluster without the test of track_array.
starts_cluster_again(st, c, close_array) == close_array[c] = -1

\* if (track_array[row, col] != -2) and (close_array[row, col] == -1):
starts_cluster(st, c, close_array) == st.track[c] # -2 /\ close_array[c] = -1

\* for row in range(0, rows): for col in range(0, cols): ..., from the n-th
\* pixel of the scan on.
RECURSIVE scan(_, _, _, _, _, _, _, _, _)
scan(n, rows, cols, st, close_array, river_array, distnavigable, diredist, diagdist) ==
    IF rows <= 0 \/ cols <= 0 \/ n >= rows * cols THEN st
    ELSE LET c == <<n \div cols, n % cols>> IN
         scan(n + 1, rows, cols,
              IF starts_cluster(st, c, close_array)
              THEN grow_cluster(<<c>>, start_cluster(st, c, n),
                                close_array, river_array, distnavigable,
                                diredist, diagdist)
              ELSE st,
              close_array, river_array, distnavigable, diredist, diagdist)

\* The run of grow_distance_rivers: the arrays it ends with and the
\* assignments it made.
grow_distance_rivers_run(rows, cols, distnavigable, diredist, diagdist, close_array, river_array, travel_array) ==
    scan(0, rows, cols,
         [track |-> river_array, travel |-> travel_array, trace |-> <<>>,
          seed |-> 0, round |-> 0, start |-> river_array],
         close_array, river_array, distnavigable, diredist, diagdist)

grow_distance_rivers(rows, cols, distnavigable, diredist, diagdist, close_array, river_array, travel_array) ==
    grow_distance_rivers_run(rows, cols, distnavigable, diredist, diagdist,
                             close_array, river_array, travel_array).travel

\* Rasterized rivers (1 on a river pixel) with at most MaxRiver river pixels.
RiverArrays ==
    {river \in [GridCells(YSize, XSize) -> {0, 1}] :
        Cardinality({c \in GridCells(YSize, XSize) : river[c] = 1}) <= MaxRiver}

\* A straight river: the first LinePixels pixels of row 1, with or without
\* river pixels beside it in row 0.
LineCells   == GridCells(3, LinePixels + 1)
SideColumns == {1, 2}
LineRivers ==
    {[c \in LineCells |-> IF \/ c[1] = 1 /\ c[2] < LinePixels
                             \/ c[1] = 0 /\ c[2] \in side
                          THEN 1 ELSE 0] : side \in SUBSET SideColumns}

\* close_pixels_func gives -1 only on river pixels.
CloseArrays(river) ==
    {close \in [DOMAIN river -> {-1, 0}] : \A c \in DOMAIN river : close[c] = -1 => river[c] = 1}

\* The close pixels of a straight river: any of these of its pixels.
ClosePlaces == {<<1, 0>>, <<1, 1>>, <<1, 3>>, <<1, 11>>, <<0, 2>>}
LineCloseArrays(river) ==
    {[c \in LineCells |-> IF c \in close THEN -1 ELSE 0] :
        close \in SUBSET {c \in ClosePlaces : river[c] = 1}}

river_raster(ysize, xsize, river, close, cost, dnav) ==
    [YSize |-> ysize, XSize |-> xsize, river_array |-> river, close_array |-> close,
     diredist |-> cost[1], diagdist |-> cost[2], distnavigable |-> dnav,
     stage |-> "close", travel_array |-> <<>>, navigable |-> <<>>, trace |-> <<>>]

InitRiver ==
    /\ DrvIdle
    /\ sc = 0
    /\ \E cost \in StepCosts : \E dnav \in NaviDists(cost) :
          \/ \E river \in RiverArrays : \E close \in CloseArrays(river) :
                agg = river_raster(YSize, XSize, river, close, cost, dnav)
          \/ \E river \in LineRivers : \E close \in LineCloseArrays(river) :
                agg = river_raster(3, LinePixels + 1, river, close, cost, dnav)

\* HF_spatial.py 1193-1255: the travel raster and the navigable raster.
detect_navigable_pixels ==
    /\ agg.stage = "close"
    /\ \E grown \in {grow_distance_rivers_run(agg.YSize - 1, agg.XSize - 1,
                                              agg.distnavigable,
                                              agg.diredist, agg.diagdist,
                                              agg.close_array, agg.river_array,
                                              change_value(agg.river_array))} :
          agg' = [agg EXCEPT
                    !.stage = "navigable",
                    !.travel_array = grown.travel,
                    !.trace = grown.trace,
                    !.navigable = [c \in Cells |->
                                      pixels_rivers_func(grown.travel[c],
                                                         agg.distnavigable)]]
    /\ UNCHANGED <<inp, run, status, pc, pi, yi, di, cur, list_datasets, fs, log, sc>>

NextRiver == detect_navigable_pixels

SpecRiver == InitRiver /\ [][NextRiver]_vars

(***************************************************************************)
(* grow_distance_rivers step by step: a step runs the scan up to the next  *)
(* start of a cluster, or runs one round of the while loop.  sc holds the  *)
(* position of the scan, the cluster, the arrays and the number of steps   *)
(* taken; st.trace holds the assignments of the last step.                 *)
(***************************************************************************)
InitGrow ==
    /\ DrvIdle
    /\ \E cost \in StepCosts : \E dnav \in NaviDists(cost) :
          \/ \E river \in RiverArrays : \E close \in CloseArrays(river) :
                agg = river_raster(YSize, XSize, river, close, cost, dnav)
          \/ \E river \in LineRivers : \E close \in LineCloseArrays(river) :
                agg = river_raster(3, LinePixels + 1, river, close, cost, dnav)
    /\ sc = [n |-> 0, cluster |-> <<>>, steps |-> 0,
             st |-> [track |-> agg.river_array, travel |-> change_value(agg.river_array),
                     trace |-> <<>>, seed |-> 0, round |-> 0,
                     start |-> agg.river_array]]

\* The pixels of the scan: range(0, rows) x range(0, cols).
ScanLength == (agg.YSize - 1) * (agg.XSize - 1)
ScanPixel(n) == <<n \div (agg.XSize - 1), n % (agg.XSize - 1)>>

\* The two for loops from the n-th pixel of the scan up to the next pixel
\* that starts a cluster, or to their end.
scan_on ==
    /\ agg.stage = "close"
    /\ sc.cluster = <<>>
    /\ sc.n < ScanLength
    /\ LET st     == [sc.st EXCEPT !.trace = <<>>]
           starts == {m \in sc.n..(ScanLength - 1) :
                         starts_cluster(st, ScanPixel(m), agg.close_array)}
       IN IF starts # {}
          THEN \E m \in {SetMin(starts)} :
                  sc' = [n |-> m + 1, cluster |-> <<ScanPixel(m)>>, steps |-> sc.steps + 1,
                         st |-> start_cluster(st, ScanPixel(m), m)]
          ELSE sc' = [n |-> ScanLength, cluster |-> <<>>, steps |-> sc.steps + 1, st |-> st]
    /\ UNCHANGED <<inp, run, status, pc, pi, yi, di, cur, list_datasets, fs, log, agg>>

\* One round of while cluster: ...
grow_round ==
    /\ agg.stage = "close"
    /\ sc.cluster # <<>>
    /\ \E reviewed \in {reviewed_list(sc.cluster, 1, sc.st, agg.river_array,
                                      agg.distnavigable)} :
          sc' = [n |-> sc.n,
                 cluster |-> new_cluster(reviewed, 1, <<>>),
                 steps |-> sc.steps + 1,
                 st |-> assign_distances(reviewed, 1,
                                         [sc.st EXCEPT !.round = sc.st.round + 1,
                                                       !.start = sc.st.track,
                                                       !.trace = <<>>],
                                         agg.close_array, agg.diredist, agg.diagdist)]
    /\ UNCHANGED <<inp, run, status, pc, pi, yi, di, cur, list_datasets, fs, log, agg>>

\* return travel_array, and the navigable raster made from it.
grow_return ==
    /\ agg.stage = "close"
    /\ sc.cluster = <<>>
    /\ sc.n >= ScanLength
    /\ agg' = [agg EXCEPT
                 !.stage = "navigable",
                 !.travel_array = sc.st.travel,
                 !.navigable = [c \in Cells |->
                                   pixels_rivers_func(sc.st.travel[c], agg.distnavigable)]]
    /\ UNCHANGED <<inp, run, status, pc, pi, yi, di, cur, list_datasets, fs, log, sc>>

NextGrow ==
    \/ scan_on
    \/ grow_round
    \/ grow_return

SpecGrow == InitGrow /\ [][NextGrow]_vars

\* The cells 8-adjacent to c inside the grid.
Adjacent(c) ==
    {d \in Cells : d # c /\ Abs(d[1] - c[1]) <= 1 /\ Abs(d[2] - c[2]) <= 1}

Sources == {c \in Cells : agg.close_array[c] = -1}

\* C20: after grow_distance_rivers every pixel marked close to a settlement has
\* travel distance 1, wherever it lies in the grid; when there is a single
\* such pixel and no river pixel is adjacent to it, every other pixel is left
\* as it was: -1 on a river pixel, 0 elsewhere.
C20_SourcesHaveDistanceOne ==
    agg.stage = "navigable" =>
        /\ \A c \in Sources : agg.travel_array[c] = U
        /\ \A c \in Sources :
               (Sources = {c} /\ \A d \in Adjacent(c) : agg.river_array[d] = 0) =>
                   \A d \in Cells \ {c} :
                       agg.travel_array[d] = change_value(agg.river_array)[d]

\* A straight river with exactly two close pixels and 10 river pixels between
\* them, and five direct steps as the maximum distance.
TwoSourcesTenApart(a) ==
    /\ \A c \in Cells : agg.river_array[c] = 1 => c[1] = 1
    /\ Sources = {<<1, a>>, <<1, a + 11>>}
    /\ agg.distnavigable = 5 * agg.diredist

StepCost(c, d) == IF c[1] = d[1] \/ c[2] = d[2] THEN agg.diredist ELSE agg.diagdist

RiverPixels == {c \in Cells : agg.river_array[c] = 1}

\* The pairs <<pixel, cost>> of the chains of river pixels, each adjacent to
\* the next inside the grid, that start at a close pixel, have at most k steps
\* and summed step costs of at most the maximum distance.
RECURSIVE Chains(_)
Chains(k) ==
    IF k = 0 THEN {<<c, 0>> : c \in Sources \cap RiverPixels}
    ELSE UNION {{p} \cup {<<e, p[2] + StepCost(p[1], e)>> : e \in
                    {x \in Adjacent(p[1]) \cap RiverPixels :
                        p[2] + StepCost(p[1], x) <= agg.distnavigable}} :
                p \in Chains(k - 1)}

\* C22: a pixel is marked navigable only if it is a river pixel and some
\* chain of river pixels, each adjacent to the next inside the grid, joins it
\* to a close pixel with summed step costs of at most the maximum distance.
C22_NavigableOnlyWithinDistance ==
    agg.stage = "navigable" =>
        \E chains \in {Chains(Cardinality(RiverPixels))} :
            \A c \in Cells :
                agg.navigable[c] = 1 =>
                    c \in RiverPixels /\ \E p \in chains : p[1] = c

\* The assignments of the rounds of growth: those after the start of a cluster.
Assignments == {k \in 1..Len(agg.trace) : agg.trace[k].round > 0}

\* C23: in a round of growth a close pixel that is reached receives 1; any
\* other pixel receives the distance of the frontier pixel plus the cost of
\* the step when it had no distance yet, and the smaller of its distance and
\* that sum when it had one; whatever the distance of the frontier pixel is.
C23_FrontierPlusEdgeCost ==
    agg.stage = "navigable" =>
        \A k \in Assignments :
            LET a == agg.trace[k] IN
            a.value = IF agg.close_array[a.pixel] = -1 THEN U
                      ELSE IF a.olddist = -U THEN a.original + a.dist
                      ELSE SetMin({a.olddist, a.original + a.dist})

\* A searched pixel keeps its mark and its distance.
SearchedPixelsKept ==
    \A c \in Cells :
        sc.st.track[c] = -2 => sc'.st.track[c] = -2 /\ sc'.st.travel[c] = sc.st.travel[c]

\* No assignment of the last step went to a pixel that was searched before
\* the step.
NoSearchedPixelAssigned ==
    \A k \in 1..Len(sc.st.trace) : ~sc.st.trace[k].searched

\* C24: a pixel's distance changes only in the step in which the pixel is
\* first reached: a pixel searched before a step keeps its mark and its
\* distance, no assignment goes to such a pixel, and the function returns
\* after at most a start and a round for every river pixel and one last look
\* at the scan.
C24_OnePassThenReturn ==
    /\ [][SearchedPixelsKept]_vars
    /\ [](agg.stage = "close" =>
            /\ NoSearchedPixelAssigned
            /\ sc.steps <= 2 * Cardinality(RiverPixels) + 1)

\* A round in which a pixel was proposed a second, smaller distance.
C24_Witness ==
    /\ agg.stage = "close"
    /\ \E k \in 1..Len(sc.st.trace) :
          /\ sc.st.trace[k].olddist # -U
          /\ sc.st.trace[k].value < sc.st.trace[k].olddist


\* C25: in the navigable raster a pixel holds 1 exactly when its distance in
\* the travel raster is above 0 and at most the maximum distance, and 0
\* otherwise: river pixels never reached (-1), pixels off the river (0) and
\* pixels with a larger distance all hold 0.
C25_NavigableIffWithinMaximum ==
    agg.stage = "navigable" =>
        \A c \in Cells :
            /\ agg.navigable[c] \in {0, 1}
            /\ agg.navigable[c] = 1 <=>
                   (0 < agg.travel_array[c] /\ agg.travel_array[c] <= agg.distnavigable)
            /\ agg.travel_array[c] \in {-U, 0} => agg.navigable[c] = 0
            /\ agg.travel_array[c] > agg.distnavigable => agg.navigable[c] = 0

\* A raster with a pixel at exactly the maximum distance, a pixel beyond it,
\* a river pixel never reached and a pixel off the river.
C25_Witness ==
    /\ agg.stage = "navigable"
    /\ \E c \in Cells : agg.travel_array[c] = agg.distnavigable /\ agg.navigable[c] = 1
    /\ \E c \in Cells : agg.travel_array[c] > agg.distnavigable /\ agg.navigable[c] = 0
    /\ \E c \in Cells : agg.travel_array[c] = -U /\ agg.navigable[c] = 0
    /\ \E c \in Cells : agg.travel_array[c] = 0 /\ agg.navigable[c] = 0


\* C30: when the maximum distance is at least the cost of a diagonal step,
\* every river pixel adjacent inside the grid to a close pixel is marked
\* navigable.
C30_NextToSourceNavigable ==
    (agg.stage = "navigable" /\ agg.distnavigable >= agg.diagdist) =>
        \A s \in Sources : \A d \in Adjacent(s) \cap RiverPixels :
            agg.navigable[d] = 1

====
